---- MODULE Spec2Model ----
(***************************************************************************)
(* Session and handle-table core of pyrsmi/rocml.py: library loading,      *)
(* smi_initialize / smi_shutdown, population of the processor-handle table *)
(* and the handle-based metric queries.                                    *)
(*                                                                         *)
(* The native library (libamd_smi.so) is the environment.  Its answers to  *)
(* the enumeration calls are a function of the hardware configuration hw,  *)
(* which is chosen at start and stays fixed for a run; its answers to the  *)
(* lifecycle and metric calls are inputs of each call.                     *)
(***************************************************************************)
EXTENDS Integers, Sequences, FiniteSets, TLC

\* ---------------------------------------------------------------- bounds
MaxSockets == 2
MaxProcs == 2
MaxCalls == 2
MaxDev == 1
NumThreads == 2

\* ------------------------------------------------------ program constants
AMDSMI_STATUS_SUCCESS == 0
AMDSMI_STATUS_NOT_SUPPORTED == 2
AMDSMI_STATUS_NOT_INIT == 32

None == "None"
CDLL == "CDLL"
NoException == ""

\* Status codes the native calls are made to return.
Status == {AMDSMI_STATUS_SUCCESS, AMDSMI_STATUS_NOT_SUPPORTED}

Threads == 1..NumThreads

\* Device indices the callers try: negative, valid and too large.
Devs == (0 - 1)..MaxDev

VARIABLES
    rocm_lib,               \* None or the loaded CDLL
    lib_load_lock,          \* 0 when free, else the thread holding it
    _rocm_lib_refcount,
    _processor_handles,     \* sequence of opaque handles <<socket, processor>>
    _handle_initialized,
    hw,                     \* what the native layer enumerates
    nativeUp,               \* amdsmi_init succeeded and amdsmi_shut_down has not since
    last,                   \* the call that returned last: arguments and outcome
    everInit,               \* smi_initialize has been called at least once
    lifeLast,               \* last lifecycle call that returned: "none", "init", "shutdown"
    nInitOk,                \* smi_initialize calls that returned
    nShutdown,              \* smi_shutdown calls that returned
    cyc,                    \* progress through initialize; shutdown; initialize; shutdown
    len1,                   \* table length after the 1st initialize of that run
    len2,                   \* table length after the 2nd initialize of that run
    repeat,                 \* <<c1, c2>> when the last two calls were both
                            \* smi_get_device_count, returning c1 then c2; else <<>>
    loads,                  \* times the native library has been loaded
    loaders,                \* threads that loaded it
    pc,                     \* per thread: where it stands in its call
    ctx,                    \* per thread: the call it is in, "load" or "init"
    texc,                   \* per thread: the exception its call is unwinding with
    tmp,                    \* per thread: the reference count it read for its update
    targ,                   \* per thread: the device_index of its call
    sock,                   \* per thread: socket index of its population loop
    todo,                   \* per thread: handles of that socket still to append
    chk,                    \* per thread: the handle behind its passed range check
    nCalls                  \* table calls the threads have started

session == <<rocm_lib, lib_load_lock, _rocm_lib_refcount, _processor_handles,
             _handle_initialized>>
ghost == <<everInit, lifeLast, nInitOk, nShutdown, cyc, len1, len2>>
\* the lifecycle bookkeeping and the rest of the state a query leaves alone
locals == <<tmp, targ, sock, todo, chk, nCalls>>
threads == <<loaders, pc, ctx, texc, tmp, targ, sock, todo, chk, nCalls>>
fixed == <<rocm_lib, lib_load_lock, _rocm_lib_refcount, hw, nativeUp, everInit,
           lifeLast, nInitOk, nShutdown, cyc, len1, len2, loads, loaders, pc, ctx,
           texc, tmp, targ, sock, todo, chk, nCalls>>
vars == <<rocm_lib, lib_load_lock, _rocm_lib_refcount, _processor_handles,
          _handle_initialized, hw, nativeUp, last, everInit, lifeLast,
          nInitOk, nShutdown, cyc, len1, len2, repeat, loads, loaders, pc, ctx,
          texc, tmp, targ, sock, todo, chk, nCalls>>

\* ------------------------------------------------------- hardware configs
\* One socket as the native layer answers for it: the status of the count call,
\* the status of the fetch call and the number of processors.
SocketKinds ==
    {[cntRet |-> AMDSMI_STATUS_NOT_SUPPORTED, getRet |-> AMDSMI_STATUS_SUCCESS, n |-> 0],
     [cntRet |-> AMDSMI_STATUS_SUCCESS, getRet |-> AMDSMI_STATUS_NOT_SUPPORTED, n |-> 1]}
    \cup {[cntRet |-> AMDSMI_STATUS_SUCCESS, getRet |-> AMDSMI_STATUS_SUCCESS, n |-> k] :
            k \in 0..MaxProcs}

SocketLists == UNION {[1..k -> SocketKinds] : k \in 0..MaxSockets}

OneGoodSocket ==
    <<[cntRet |-> AMDSMI_STATUS_SUCCESS, getRet |-> AMDSMI_STATUS_SUCCESS, n |-> 1]>>

\* needsInit: the native layer refuses to enumerate (NOT_INIT) outside an
\* amdsmi_init .. amdsmi_shut_down window.
HwConfigs ==
    {[cntRet |-> c, getRet |-> g, socks |-> s, needsInit |-> b] :
        c \in {AMDSMI_STATUS_SUCCESS}, g \in {AMDSMI_STATUS_SUCCESS},
        s \in SocketLists, b \in BOOLEAN}
    \cup {[cntRet |-> AMDSMI_STATUS_NOT_SUPPORTED, getRet |-> AMDSMI_STATUS_SUCCESS,
           socks |-> OneGoodSocket, needsInit |-> b] : b \in BOOLEAN}
    \cup {[cntRet |-> AMDSMI_STATUS_SUCCESS, getRet |-> AMDSMI_STATUS_NOT_SUPPORTED,
           socks |-> OneGoodSocket, needsInit |-> b] : b \in BOOLEAN}

\* ---------------------------------------------------------- pure helpers
amdsmi_ret_ok(my_ret) == my_ret = AMDSMI_STATUS_SUCCESS

rsmi_ret_ok(my_ret) == amdsmi_ret_ok(my_ret)

\* Status of an enumeration call whose hardware answer is ret.
NativeEnumRet(h, up, ret) ==
    IF h.needsInit /\ ~up THEN AMDSMI_STATUS_NOT_INIT ELSE ret

\* Mutant: the status of the fetch call is not tested before the handles are
\* appended.
SocketHandles_ignores_fetch_status(h, up, i) ==
    LET d == h.socks[i] IN
    IF ~amdsmi_ret_ok(NativeEnumRet(h, up, d.cntRet)) THEN <<>>
    ELSE IF d.n = 0 THEN <<>>
    ELSE [j \in 1..d.n |-> <<i, j>>]

\* One iteration of the socket loop: the handles socket i contributes.
SocketHandles(h, up, i) ==
    LET d == h.socks[i] IN
    IF ~amdsmi_ret_ok(NativeEnumRet(h, up, d.cntRet)) THEN <<>>
    ELSE IF d.n = 0 THEN <<>>
    ELSE IF amdsmi_ret_ok(NativeEnumRet(h, up, d.getRet))
         THEN [j \in 1..d.n |-> <<i, j>>]
         ELSE <<>>

RECURSIVE SocketLoop(_, _, _)
SocketLoop(h, up, k) ==
    IF k = 0 THEN <<>> ELSE SocketLoop(h, up, k - 1) \o SocketHandles(h, up, k)

\* Mutant: the flag assignment after the socket loop is missing.
_init_processor_handles_forgets_flag(lib, up, handles, flag) ==
    IF flag THEN [handles |-> handles, flag |-> flag]
    ELSE IF lib = None
         THEN [handles |-> <<>>, flag |-> FALSE]
    ELSE IF ~amdsmi_ret_ok(NativeEnumRet(hw, up, hw.cntRet))
         THEN [handles |-> <<>>, flag |-> FALSE]
    ELSE IF Len(hw.socks) = 0
         THEN [handles |-> <<>>, flag |-> FALSE]
    ELSE IF ~amdsmi_ret_ok(NativeEnumRet(hw, up, hw.getRet))
         THEN [handles |-> <<>>, flag |-> FALSE]
    ELSE [handles |-> SocketLoop(hw, up, Len(hw.socks)), flag |-> FALSE]

\* Mutant: a call that finds the flag set discards the table and the flag
\* instead of returning, so the next call enumerates again.
_init_processor_handles_discards(lib, up, handles, flag) ==
    IF flag \/ lib = None THEN [handles |-> <<>>, flag |-> FALSE]
    ELSE [handles |-> SocketLoop(hw, up, Len(hw.socks)), flag |-> TRUE]

\* _init_processor_handles run with library lib and native session state up, on
\* the current table and flag: the table and flag it leaves.
_init_processor_handles(lib, up, handles, flag) ==
    IF flag THEN [handles |-> handles, flag |-> flag]
    ELSE IF lib = None
         THEN [handles |-> <<>>, flag |-> FALSE]
    ELSE IF ~amdsmi_ret_ok(NativeEnumRet(hw, up, hw.cntRet))
         THEN [handles |-> <<>>, flag |-> FALSE]
    ELSE IF Len(hw.socks) = 0
         THEN [handles |-> <<>>, flag |-> FALSE]
    ELSE IF ~amdsmi_ret_ok(NativeEnumRet(hw, up, hw.getRet))
         THEN [handles |-> <<>>, flag |-> FALSE]
    ELSE [handles |-> SocketLoop(hw, up, Len(hw.socks)), flag |-> TRUE]

\* The native calls one iteration of the socket loop makes: the count call, and
\* the fetch call when the count call reports processors.
SocketCalls(h, up, i) ==
    LET d == h.socks[i] IN
    IF ~amdsmi_ret_ok(NativeEnumRet(h, up, d.cntRet)) THEN 1
    ELSE IF d.n = 0 THEN 1
    ELSE 2

RECURSIVE SocketLoopCalls(_, _, _)
SocketLoopCalls(h, up, k) ==
    IF k = 0 THEN 0 ELSE SocketLoopCalls(h, up, k - 1) + SocketCalls(h, up, k)

\* Mutant: the socket count is asked for before the flag is tested.
EnumerationCalls_probes(lib, up, flag) ==
    IF lib = None THEN 0
    ELSE IF flag THEN 1
    ELSE IF ~amdsmi_ret_ok(NativeEnumRet(hw, up, hw.cntRet)) THEN 1
    ELSE IF Len(hw.socks) = 0 THEN 1
    ELSE IF ~amdsmi_ret_ok(NativeEnumRet(hw, up, hw.getRet)) THEN 2
    ELSE 2 + SocketLoopCalls(hw, up, Len(hw.socks))

\* The number of native enumeration calls (amdsmi_get_socket_handles and
\* amdsmi_get_processor_handles) one run of _init_processor_handles makes.
\* With no library the attribute lookup raises before any call.
EnumerationCalls(lib, up, flag) ==
    IF flag THEN 0
    ELSE IF lib = None THEN 0
    ELSE IF ~amdsmi_ret_ok(NativeEnumRet(hw, up, hw.cntRet)) THEN 1
    ELSE IF Len(hw.socks) = 0 THEN 1
    ELSE IF ~amdsmi_ret_ok(NativeEnumRet(hw, up, hw.getRet)) THEN 2
    ELSE 2 + SocketLoopCalls(hw, up, Len(hw.socks))

\* Mutant: the lower bound of the range check is missing, so a negative index
\* reaches the list lookup, which counts from the end of the table.
HandleLookup_no_lower_bound(handles, device_index) ==
    IF device_index >= Len(handles)
    THEN [exc |-> "ValueError", h |-> <<>>]
    ELSE IF device_index >= 0
         THEN [exc |-> NoException, h |-> handles[device_index + 1]]
    ELSE IF 0 - device_index <= Len(handles)
         THEN [exc |-> NoException, h |-> handles[Len(handles) + device_index + 1]]
    ELSE [exc |-> "IndexError", h |-> <<>>]

\* The range check and lookup of _get_processor_handle on table handles.
HandleLookup(handles, device_index) ==
    IF device_index < 0 \/ device_index >= Len(handles)
    THEN [exc |-> "ValueError", h |-> <<>>]
    ELSE [exc |-> NoException, h |-> handles[device_index + 1]]

\* ------------------------------------------------------------ call records
Raise(e) ==
    [kind |-> "raise", exc |-> e, num |-> 0,
    str |-> <<>>, h |-> <<>>, seq |-> <<>>]
RetNone ==
    [kind |-> "none", exc |-> NoException, num |-> 0,
    str |-> <<>>, h |-> <<>>, seq |-> <<>>]
RetNum(n) ==
    [kind |-> "num", exc |-> NoException, num |-> n,
    str |-> <<>>, h |-> <<>>, seq |-> <<>>]
RetBool(b) ==
    [kind |-> "bool", exc |-> NoException, num |-> IF b THEN 1 ELSE 0,
     str |-> <<>>, h |-> <<>>, seq |-> <<>>]
RetStr(s) ==
    [kind |-> "str", exc |-> NoException, num |-> 0,
    str |-> s, h |-> <<>>, seq |-> <<>>]
RetHandle(x) ==
    [kind |-> "handle", exc |-> NoException, num |-> 0,
    str |-> <<>>, h |-> x, seq |-> <<>>]

\* Place holders of a call record: no device argument, no native call made.
NoDev == 0 - 9
NotCalled == 0 - 1

\* The identity values a call's native calls reported: none but for
\* smi_get_device_uuid.
NoAnswer == [uuid_str |-> <<>>, as_uint |-> 0]

\* native, native2: the status of the call's first and second native call;
\* enum: the number of native enumeration calls the call made; reply: the
\* unsigned fields the native call filled in, each by its binary digits;
\* counts: the counts the two calls of a counted fetch reported.
Call(op, dev, dev2, arg, native, res) ==
    [op |-> op, dev |-> dev, dev2 |-> dev2, arg |-> arg, native |-> native,
     native2 |-> NotCalled, answer |-> NoAnswer, enum |-> 0, reply |-> <<>>,
     counts |-> <<>>, res |-> res]

\* Call record c of a call whose handle-table population made n native
\* enumeration calls.
Enumerated(n, c) == [c EXCEPT !.enum = n]

Init ==
    /\ rocm_lib = None
    /\ lib_load_lock = 0
    /\ _rocm_lib_refcount = 0
    /\ _processor_handles = <<>>
    /\ _handle_initialized = FALSE
    /\ hw \in HwConfigs
    /\ nativeUp = FALSE
    /\ last = Call("start", NoDev, NoDev, "", NotCalled, RetNone)
    /\ everInit = FALSE
    /\ lifeLast = "none"
    /\ nInitOk = 0
    /\ nShutdown = 0
    /\ cyc = 0
    /\ len1 = 0 - 1
    /\ len2 = 0 - 1
    /\ repeat = <<>>
    /\ loads = 0
    /\ loaders = {}
    /\ pc = [t \in Threads |-> "idle"]
    /\ ctx = [t \in Threads |-> "none"]
    /\ texc = [t \in Threads |-> NoException]
    /\ tmp = [t \in Threads |-> 0]
    /\ targ = [t \in Threads |-> NoDev]
    /\ sock = [t \in Threads |-> 0]
    /\ todo = [t \in Threads |-> <<>>]
    /\ chk = [t \in Threads |-> <<>>]
    /\ nCalls = 0

\* ---------------------------------------------------------------- loading
\* What _load_rocm_library does on a machine where the platform check, the file
\* search and the OS loader turn out as env says: the library and the exception.
LoadEnvs == {"ok", "win", "nofile", "oserror"}

\* Mutant: the test for an already loaded library is missing, so a later call
\* whose search or load fails leaves the process without its library.
_load_rocm_library_reloads(lib, env) ==
    IF env = "win" THEN [lib |-> None, exc |-> "ROCMLError_NotSupported"]
    ELSE IF env = "nofile" THEN [lib |-> None, exc |-> "ROCMLError_LibraryNotFound"]
    ELSE IF env = "oserror" THEN [lib |-> None, exc |-> "ROCMLError_LibraryNotFound"]
    ELSE [lib |-> CDLL, exc |-> NoException]

_load_rocm_library(lib, env) ==
    IF lib # None THEN [lib |-> lib, exc |-> NoException]
    ELSE IF env = "win" THEN [lib |-> None, exc |-> "ROCMLError_NotSupported"]
    ELSE IF env = "nofile" THEN [lib |-> None, exc |-> "ROCMLError_LibraryNotFound"]
    ELSE IF env = "oserror" THEN [lib |-> None, exc |-> "ROCMLError_LibraryNotFound"]
    ELSE [lib |-> CDLL, exc |-> NoException]

\* Ghost bookkeeping of a lifecycle call that returned.
CycAfterInit == IF cyc = 0 THEN 1 ELSE IF cyc = 2 THEN 3 ELSE 0 - 1
CycAfterShutdown == IF cyc = 1 THEN 2 ELSE IF cyc = 3 THEN 4 ELSE 0 - 1

\* Mutant: smi_shutdown resets the flag and forgets the table.
ClearedHandles_keeps_table(handles, flag) == [handles |-> handles, flag |-> FALSE]

\* Mutant: smi_shutdown empties the table and forgets the flag.
ClearedHandles_keeps_flag(handles, flag) == [handles |-> <<>>, flag |-> flag]

\* The clearing of the table and the flag by smi_shutdown.
ClearedHandles(handles, flag) == [handles |-> <<>>, flag |-> FALSE]

\* The reference-count updates, made under lib_load_lock.
RefcountAfterInit(rc) == rc + 1

\* Mutant: smi_shutdown takes two references back.
RefcountAfterShutdown_twice(rc) == rc - 2

RefcountAfterShutdown(rc) == rc - 1

\* Mutant: the reference is counted before the checks, so a failing call
\* leaves it counted.
smi_initialize_counts_early ==
    /\ nInitOk < MaxCalls
    /\ lib_load_lock = 0
    /\ \E env \in LoadEnvs, driverLive \in BOOLEAN, ret_init \in Status :
        LET ld == _load_rocm_library(rocm_lib, env)
            p == _init_processor_handles(ld.lib, TRUE, _processor_handles,
                                         _handle_initialized)
            fail(e, checked, native) ==
                /\ last' = Call("smi_initialize", NoDev, NoDev, checked, native,
                                Raise(e))
                /\ _rocm_lib_refcount' = RefcountAfterInit(_rocm_lib_refcount)
                /\ UNCHANGED <<_processor_handles, _handle_initialized, nativeUp,
                               lifeLast, nInitOk, nShutdown, cyc, len1, len2>>
        IN  /\ rocm_lib' = ld.lib
            /\ loads' = IF rocm_lib = None /\ ld.lib # None THEN loads + 1 ELSE loads
            /\ everInit' = TRUE
            /\ repeat' = <<>>
            /\ UNCHANGED threads
            /\ UNCHANGED <<lib_load_lock, hw>>
            /\ IF ld.exc # NoException THEN fail(ld.exc, "", NotCalled)
               ELSE IF ~driverLive THEN fail("RuntimeError", "not live", NotCalled)
               ELSE IF ret_init # AMDSMI_STATUS_SUCCESS
                    THEN fail("RuntimeError", "live", ret_init)
               ELSE /\ nativeUp' = TRUE
                    /\ _processor_handles' = p.handles
                    /\ _handle_initialized' = p.flag
                    /\ _rocm_lib_refcount' = RefcountAfterInit(_rocm_lib_refcount)
                    /\ last' = Enumerated(
                                   EnumerationCalls(ld.lib, TRUE, _handle_initialized),
                                   Call("smi_initialize", NoDev, NoDev, "live", ret_init,
                                    RetNone))
                    /\ lifeLast' = "init"
                    /\ nInitOk' = nInitOk + 1
                    /\ cyc' = CycAfterInit
                    /\ len1' = IF CycAfterInit = 1 THEN Len(p.handles) ELSE len1
                    /\ len2' = IF CycAfterInit = 3 THEN Len(p.handles) ELSE len2
                    /\ UNCHANGED nShutdown

\* The arg of its call record is what _driver_initialized reported, "" when the
\* call did not come to ask; native is the status of amdsmi_init.
smi_initialize ==
    /\ nInitOk < MaxCalls
    /\ lib_load_lock = 0
    /\ \E env \in LoadEnvs, driverLive \in BOOLEAN, ret_init \in Status :
        LET ld == _load_rocm_library(rocm_lib, env)
            p == _init_processor_handles(ld.lib, TRUE, _processor_handles,
                                         _handle_initialized)
            fail(e, checked, native) ==
                /\ last' = Call("smi_initialize", NoDev, NoDev, checked, native,
                                Raise(e))
                /\ UNCHANGED <<_rocm_lib_refcount, _processor_handles,
                               _handle_initialized, nativeUp, lifeLast, nInitOk,
                               nShutdown, cyc, len1, len2>>
        IN  /\ rocm_lib' = ld.lib
            /\ loads' = IF rocm_lib = None /\ ld.lib # None THEN loads + 1 ELSE loads
            /\ everInit' = TRUE
            /\ repeat' = <<>>
            /\ UNCHANGED threads
            /\ UNCHANGED <<lib_load_lock, hw>>
            /\ IF ld.exc # NoException THEN fail(ld.exc, "", NotCalled)
               ELSE IF ~driverLive THEN fail("RuntimeError", "not live", NotCalled)
               ELSE IF ret_init # AMDSMI_STATUS_SUCCESS
                    THEN fail("RuntimeError", "live", ret_init)
               ELSE /\ nativeUp' = TRUE
                    /\ _processor_handles' = p.handles
                    /\ _handle_initialized' = p.flag
                    /\ _rocm_lib_refcount' = RefcountAfterInit(_rocm_lib_refcount)
                    /\ last' = Enumerated(
                                   EnumerationCalls(ld.lib, TRUE, _handle_initialized),
                                   Call("smi_initialize", NoDev, NoDev, "live", ret_init,
                                    RetNone))
                    /\ lifeLast' = "init"
                    /\ nInitOk' = nInitOk + 1
                    /\ cyc' = CycAfterInit
                    /\ len1' = IF CycAfterInit = 1 THEN Len(p.handles) ELSE len1
                    /\ len2' = IF CycAfterInit = 3 THEN Len(p.handles) ELSE len2
                    /\ UNCHANGED nShutdown

\* Mutant: a failing amdsmi_shut_down is raised to the caller before the table
\* is cleared and the reference given back.
smi_shutdown_escalates ==
    /\ nShutdown < MaxCalls
    /\ lib_load_lock = 0
    /\ repeat' = <<>>
    /\ IF rocm_lib = None
       THEN /\ last' = Call("smi_shutdown", NoDev, NoDev, "", NotCalled,
                            Raise("AttributeError"))
            /\ UNCHANGED <<session, hw, nativeUp, ghost, loads, threads>>
       ELSE \E ret \in Status :
            IF ~amdsmi_ret_ok(ret)
            THEN /\ last' = Call("smi_shutdown", NoDev, NoDev, "", ret,
                                 Raise("RuntimeError"))
                 /\ nShutdown' = nShutdown + 1
                 /\ UNCHANGED <<session, hw, nativeUp, everInit, lifeLast, nInitOk,
                                cyc, len1, len2, loads, threads>>
            ELSE
            LET c == ClearedHandles(_processor_handles, _handle_initialized) IN
            /\ nativeUp' = FALSE
            /\ _processor_handles' = c.handles
            /\ _handle_initialized' = c.flag
            /\ _rocm_lib_refcount' = RefcountAfterShutdown(_rocm_lib_refcount)
            /\ last' = Call("smi_shutdown", NoDev, NoDev, "", ret, RetNone)
            /\ lifeLast' = "shutdown"
            /\ nShutdown' = nShutdown + 1
            /\ cyc' = CycAfterShutdown
            /\ UNCHANGED <<rocm_lib, lib_load_lock, hw, everInit, nInitOk, len1, len2,
                           loads, threads>>

\* smi_shutdown: the native shutdown, whose status is only logged, the clearing
\* of the table and the flag, and the reference given back.
smi_shutdown ==
    /\ nShutdown < MaxCalls
    /\ lib_load_lock = 0
    /\ repeat' = <<>>
    /\ IF rocm_lib = None
       THEN /\ last' = Call("smi_shutdown", NoDev, NoDev, "", NotCalled,
                            Raise("AttributeError"))
            /\ UNCHANGED <<session, hw, nativeUp, ghost, loads, threads>>
       ELSE \E ret \in Status :
            LET c == ClearedHandles(_processor_handles, _handle_initialized) IN
            /\ nativeUp' = IF amdsmi_ret_ok(ret) THEN FALSE ELSE nativeUp
            /\ _processor_handles' = c.handles
            /\ _handle_initialized' = c.flag
            /\ _rocm_lib_refcount' = RefcountAfterShutdown(_rocm_lib_refcount)
            /\ last' = Call("smi_shutdown", NoDev, NoDev, "", ret, RetNone)
            /\ lifeLast' = "shutdown"
            /\ nShutdown' = nShutdown + 1
            /\ cyc' = CycAfterShutdown
            /\ UNCHANGED <<rocm_lib, lib_load_lock, hw, everInit, nInitOk, len1, len2,
                           loads, threads>>

\* Mutant: the length is read before the lazy population has run.
CountResult_stale(before, after) == Len(before)

\* What smi_get_device_count returns: the length of the table after the lazy
\* population.
CountResult(before, after) == Len(after)

smi_get_device_count ==
    LET p == _init_processor_handles(rocm_lib, nativeUp, _processor_handles,
                                     _handle_initialized)
    IN  /\ _processor_handles' = p.handles
        /\ _handle_initialized' = p.flag
        /\ last' = Enumerated(
                       EnumerationCalls(rocm_lib, nativeUp, _handle_initialized),
                       Call("smi_get_device_count", NoDev, NoDev, "", NotCalled,
                        RetNum(CountResult(_processor_handles, p.handles))))
        /\ repeat' = IF last.op = "smi_get_device_count"
                     THEN <<last.res.num, CountResult(_processor_handles, p.handles)>>
                     ELSE <<>>
        /\ UNCHANGED fixed

_get_processor_handle(device_index) ==
    LET p == _init_processor_handles(rocm_lib, nativeUp, _processor_handles,
                                     _handle_initialized)
        r == HandleLookup(p.handles, device_index)
    IN  /\ _processor_handles' = p.handles
        /\ _handle_initialized' = p.flag
        /\ last' = Enumerated(
                       EnumerationCalls(rocm_lib, nativeUp, _handle_initialized),
                       Call("_get_processor_handle", device_index, NoDev, "", NotCalled,
                        IF r.exc # NoException THEN Raise(r.exc) ELSE RetHandle(r.h)))
        /\ repeat' = <<>>
        /\ UNCHANGED fixed

ResolveHandle == \E device_index \in Devs : _get_processor_handle(device_index)

Next ==
    \/ smi_initialize
    \/ smi_shutdown
    \/ smi_get_device_count
    \/ ResolveHandle

Spec == Init /\ [][Next]_vars

\* ------------------------------------------------------ status translator
\* Codes handed to the translator: success, two codes of the table of messages,
\* and two codes outside it.
StatusCodes == Status \cup {AMDSMI_STATUS_NOT_INIT, 0 - 1, 4096}

\* What rocm_lib.amdsmi_status_code_to_string does when called: it fills in a
\* message, leaves the pointer null, or raises.
StatusLookups == {"message", "empty", "raises"}

\* The result of a translator call; str carries the lines the call logged.
RetLogged(b, log) == [RetBool(b) EXCEPT !.str = log]

\* Mutant: the except clause around the message lookup is missing.
StatusTranslation_unguarded(my_ret, lib, lookup) ==
    IF amdsmi_ret_ok(my_ret) THEN RetLogged(TRUE, <<>>)
    ELSE IF lib = None THEN Raise("AttributeError")
    ELSE IF lookup = "raises" THEN Raise("Exception")
    ELSE IF lookup = "message" THEN RetLogged(FALSE, <<"native message">>)
    ELSE RetLogged(FALSE, <<"table message">>)

\* The whole of amdsmi_ret_ok: on a code other than success it asks the library
\* for a message and logs it, or logs the message of its own table when the
\* library gave none or the lookup raised (as it does without a library).
StatusTranslation(my_ret, lib, lookup) ==
    IF amdsmi_ret_ok(my_ret) THEN RetLogged(TRUE, <<>>)
    ELSE IF lib = None \/ lookup = "raises" THEN RetLogged(FALSE, <<"table message">>)
    ELSE IF lookup = "message" THEN RetLogged(FALSE, <<"native message">>)
    ELSE RetLogged(FALSE, <<"table message">>)

CallAmdsmiRetOk ==
    \E my_ret \in StatusCodes, lookup \in StatusLookups :
        /\ last' = Call("amdsmi_ret_ok", NoDev, NoDev, lookup, my_ret,
                        StatusTranslation(my_ret, rocm_lib, lookup))
        /\ repeat' = <<>>
        /\ UNCHANGED <<_processor_handles, _handle_initialized, fixed>>

\* rsmi_ret_ok returns what amdsmi_ret_ok returns.
CallRsmiRetOk ==
    \E my_ret \in StatusCodes, lookup \in StatusLookups :
        /\ last' = Call("rsmi_ret_ok", NoDev, NoDev, lookup, my_ret,
                        StatusTranslation(my_ret, rocm_lib, lookup))
        /\ repeat' = <<>>
        /\ UNCHANGED <<_processor_handles, _handle_initialized, fixed>>

\* ---------------------------------------------------------------- queries
\* Values the native metric calls are made to report.
DeviceIds == {29704}
MarketNames == {<<"M", "I">>}
Activities == {0, 100}
MemTotals == {4096}
DmaBits == {0, 1}
UuidStrs == {<<"a", "b", "-", "c">>, <<"G", "P", "U", "-", "a", "b", "-", "c">>}
BdfIds == {0, 49920}

memory_type_l == <<"VRAM", "VIS_VRAM", "GTT">>
MemTypeArgs == {"VRAM", "VIS_VRAM", "GTT", "INVALID_TYPE"}
UuidFormats == {"roc", "raw", "nv", "invalid"}

SeqRange(q) == {q[i] : i \in 1..Len(q)}

GpuPrefix == <<"G", "P", "U", "-">>
StartsWithGpu(str) == Len(str) >= 4 /\ SubSeq(str, 1, 4) = GpuPrefix

HexChars == <<"0", "1", "2", "3", "4", "5", "6", "7",
              "8", "9", "a", "b", "c", "d", "e", "f">>
UuidHexWidth == 32

\* f'{n:0{width}x}' for 0 <= n < 16^width
RECURSIVE HexFormat(_, _)
HexFormat(n, width) ==
    IF width = 0 THEN <<>>
    ELSE Append(HexFormat(n \div 16, width - 1), HexChars[(n % 16) + 1])

\* BdfHex[n] is f'{n:032x}'.
BdfHex == [n \in BdfIds |-> HexFormat(n, UuidHexWidth)]

\* What one native metric call answers: a status and, on success, one of values;
\* on failure the output structure keeps its zero initialisation.
Answers(values, zero) ==
    {[ret |-> AMDSMI_STATUS_SUCCESS, v |-> x] : x \in values}
    \cup {[ret |-> r, v |-> zero] : r \in Status \ {AMDSMI_STATUS_SUCCESS}}

\* Mutant: the except clause is missing, so the exception reaches the caller.
Guarded_propagates(exc, ret, value, sentinel) ==
    IF exc # NoException THEN Raise(exc)
    ELSE IF rsmi_ret_ok(ret) THEN value
    ELSE sentinel

\* Mutant: the status of the native call is not tested.
Guarded_ignores_status(exc, ret, value, sentinel) ==
    IF exc # NoException THEN sentinel ELSE value

\* The try / except body shared by the handle-based queries: an exception raised
\* while resolving the handle or decoding an argument is caught and gives the
\* sentinel; otherwise the status of the native call decides.
Guarded(exc, ret, value, sentinel) ==
    IF exc # NoException THEN sentinel
    ELSE IF rsmi_ret_ok(ret) THEN value
    ELSE sentinel

\* The status the query saw from a native call, NotCalled when an exception kept
\* it from calling.
NativeSeen(exc, ret) == IF exc # NoException THEN NotCalled ELSE ret

\* The start of a handle-based query: lazy population and lookup as in
\* _get_processor_handle, for dev and then for dev2 when the query takes two
\* devices.  exc is the exception the lookups ended with.
QueryLookup(dev, dev2) ==
    LET p == _init_processor_handles(rocm_lib, nativeUp, _processor_handles,
                                     _handle_initialized)
        r1 == HandleLookup(p.handles, dev)
        r2 == IF dev2 = NoDev \/ r1.exc # NoException THEN r1
              ELSE HandleLookup(p.handles, dev2)
    IN  [handles |-> p.handles, flag |-> p.flag, exc |-> r2.exc]

smi_get_device_id(dev) ==
    \E a \in Answers(DeviceIds, 0) :
        LET q == QueryLookup(dev, NoDev) IN
        /\ _processor_handles' = q.handles
        /\ _handle_initialized' = q.flag
        /\ last' = Enumerated(
                       EnumerationCalls(rocm_lib, nativeUp, _handle_initialized),
                       Call("smi_get_device_id", dev, NoDev, "", NativeSeen(q.exc, a.ret),
                        Guarded(q.exc, a.ret, RetNum(a.v), RetNum(0 - 1))))
        /\ repeat' = <<>>
        /\ UNCHANGED fixed

smi_get_device_name(dev) ==
    \E a \in Answers(MarketNames, <<>>) :
        LET q == QueryLookup(dev, NoDev) IN
        /\ _processor_handles' = q.handles
        /\ _handle_initialized' = q.flag
        /\ last' = Enumerated(
                       EnumerationCalls(rocm_lib, nativeUp, _handle_initialized),
                       Call("smi_get_device_name", dev, NoDev, "",
                        NativeSeen(q.exc, a.ret),
                        Guarded(q.exc, a.ret, RetStr(a.v), RetStr(<<>>))))
        /\ repeat' = <<>>
        /\ UNCHANGED fixed

smi_get_device_utilization(dev) ==
    \E a \in Answers(Activities, 0) :
        LET q == QueryLookup(dev, NoDev) IN
        /\ _processor_handles' = q.handles
        /\ _handle_initialized' = q.flag
        /\ last' = Enumerated(
                       EnumerationCalls(rocm_lib, nativeUp, _handle_initialized),
                       Call("smi_get_device_utilization", dev, NoDev, "",
                        NativeSeen(q.exc, a.ret),
                        Guarded(q.exc, a.ret, RetNum(a.v), RetNum(0 - 1))))
        /\ repeat' = <<>>
        /\ UNCHANGED fixed

\* memory_type_l.index(type) raises ValueError for a string that is not listed.
MemTypeExc(exc, type) ==
    IF exc # NoException THEN exc
    ELSE IF type \notin SeqRange(memory_type_l) THEN "ValueError"
    ELSE NoException

smi_get_device_memory_total(dev, type) ==
    \E a \in Answers(MemTotals, 0) :
        LET q == QueryLookup(dev, NoDev)
            exc == MemTypeExc(q.exc, type)
        IN  /\ _processor_handles' = q.handles
            /\ _handle_initialized' = q.flag
            /\ last' = Enumerated(
                           EnumerationCalls(rocm_lib, nativeUp, _handle_initialized),
                           Call("smi_get_device_memory_total", dev, NoDev, type,
                            NativeSeen(exc, a.ret),
                            Guarded(exc, a.ret, RetNum(a.v), RetNum(0 - 1))))
            /\ repeat' = <<>>
            /\ UNCHANGED fixed

smi_is_device_p2p_accessible(dev_src, dev_dst) ==
    \E a \in Answers(DmaBits, 0) :
        LET q == QueryLookup(dev_src, dev_dst) IN
        /\ _processor_handles' = q.handles
        /\ _handle_initialized' = q.flag
        /\ last' = Enumerated(
                       EnumerationCalls(rocm_lib, nativeUp, _handle_initialized),
                       Call("smi_is_device_p2p_accessible", dev_src, dev_dst, "",
                        NativeSeen(q.exc, a.ret),
                        Guarded(q.exc, a.ret, RetBool(a.v # 0), RetNum(0 - 1))))
        /\ repeat' = <<>>
        /\ UNCHANGED fixed

\* What smi_get_device_unique_id returns.
smi_get_device_unique_id(exc, ret, as_uint) ==
    Guarded(exc, ret, RetNum(as_uint), RetNum(0 - 1)).num

\* The string smi_get_device_uuid builds once the native UUID call succeeded.
\* Mutant: the 'raw' format returns the native string as it is.
UuidFromNative_raw_keeps_prefix(uuid_str, format) ==
    IF format = "roc"
    THEN [exc |-> NoException,
          str |-> IF StartsWithGpu(uuid_str) THEN uuid_str ELSE GpuPrefix \o uuid_str]
    ELSE IF format = "raw" THEN [exc |-> NoException, str |-> uuid_str]
    ELSE IF format = "nv"
         THEN [exc |-> NoException,
               str |-> GpuPrefix \o (IF StartsWithGpu(uuid_str)
                                     THEN SubSeq(uuid_str, 5, Len(uuid_str))
                                     ELSE uuid_str)]
    ELSE [exc |-> "ValueError", str |-> <<>>]

UuidFromNative(uuid_str, format) ==
    LET raw_uuid == IF StartsWithGpu(uuid_str)
                    THEN SubSeq(uuid_str, 5, Len(uuid_str))
                    ELSE uuid_str
    IN  IF format = "roc"
        THEN [exc |-> NoException,
              str |-> IF StartsWithGpu(uuid_str) THEN uuid_str ELSE GpuPrefix \o uuid_str]
        ELSE IF format = "raw" THEN [exc |-> NoException, str |-> raw_uuid]
        ELSE IF format = "nv" THEN [exc |-> NoException, str |-> GpuPrefix \o raw_uuid]
        ELSE [exc |-> "ValueError", str |-> <<>>]

\* Mutant: the 'nv' string of the fallback loses the last digit of its last
\* group.
UuidFromBdf_short_nv(bdf_id, format) ==
    LET bdf_hex == BdfHex[bdf_id] IN
    IF format = "roc" THEN [exc |-> NoException, str |-> GpuPrefix \o bdf_hex]
    ELSE IF format = "raw" THEN [exc |-> NoException, str |-> bdf_hex]
    ELSE IF format = "nv"
         THEN [exc |-> NoException,
               str |-> GpuPrefix \o SubSeq(bdf_hex, 1, 8) \o <<"-">>
                       \o SubSeq(bdf_hex, 9, 12) \o <<"-">>
                       \o SubSeq(bdf_hex, 13, 16) \o <<"-">>
                       \o SubSeq(bdf_hex, 17, 20) \o <<"-">>
                       \o SubSeq(bdf_hex, 21, 31)]
    ELSE [exc |-> "ValueError", str |-> <<>>]

\* The string the BDF fallback of smi_get_device_uuid builds from bdf_id.
UuidFromBdf(bdf_id, format) ==
    LET bdf_hex == BdfHex[bdf_id] IN
    IF format = "roc" THEN [exc |-> NoException, str |-> GpuPrefix \o bdf_hex]
    ELSE IF format = "raw" THEN [exc |-> NoException, str |-> bdf_hex]
    ELSE IF format = "nv"
         THEN [exc |-> NoException,
               str |-> GpuPrefix \o SubSeq(bdf_hex, 1, 8) \o <<"-">>
                       \o SubSeq(bdf_hex, 9, 12) \o <<"-">>
                       \o SubSeq(bdf_hex, 13, 16) \o <<"-">>
                       \o SubSeq(bdf_hex, 17, 20) \o <<"-">>
                       \o SubSeq(bdf_hex, 21, 32)]
    ELSE [exc |-> "ValueError", str |-> <<>>]

\* What smi_get_device_uuid returns, given the outcome exc of the handle lookup,
\* the status ret and string of the native UUID call and the status and value
\* of the BDF call of the fallback.
UuidResult(exc, ret, uuid_str, bdf_ret, as_uint, format) ==
    IF exc # NoException THEN RetStr(<<>>)
    ELSE IF rsmi_ret_ok(ret)
         THEN LET u == UuidFromNative(uuid_str, format)
              IN  Guarded(u.exc, ret, RetStr(u.str), RetStr(<<>>))
    ELSE LET bdf_id == smi_get_device_unique_id(exc, bdf_ret, as_uint) IN
         IF bdf_id = 0 - 1 THEN RetStr(<<>>)
         ELSE LET u == UuidFromBdf(bdf_id, format)
              IN  Guarded(u.exc, bdf_ret, RetStr(u.str), RetStr(<<>>))

\* What the two native calls of smi_get_device_uuid answer: the UUID call, and
\* the BDF call the fallback makes after a failed UUID call.
UuidAnswers ==
    {[ret |-> AMDSMI_STATUS_SUCCESS, uuid_str |-> u,
      called2 |-> FALSE, bdf_ret |-> AMDSMI_STATUS_SUCCESS, as_uint |-> 0] :
        u \in UuidStrs}
    \cup {[ret |-> r, uuid_str |-> <<>>, called2 |-> TRUE, bdf_ret |-> b.ret,
           as_uint |-> b.v] :
            r \in Status \ {AMDSMI_STATUS_SUCCESS}, b \in Answers(BdfIds, 0)}

smi_get_device_uuid(dev, format) ==
    \E a \in UuidAnswers :
        LET q == QueryLookup(dev, NoDev) IN
        /\ _processor_handles' = q.handles
        /\ _handle_initialized' = q.flag
        /\ last' = [Call("smi_get_device_uuid", dev, NoDev, format,
                         NativeSeen(q.exc, a.ret),
                         UuidResult(q.exc, a.ret, a.uuid_str, a.bdf_ret, a.as_uint,
                                    format))
                        EXCEPT !.enum = EnumerationCalls(rocm_lib, nativeUp,
                                                        _handle_initialized),
                               !.native2 = IF a.called2
                                           THEN NativeSeen(q.exc, a.bdf_ret)
                                           ELSE NotCalled,
                               !.answer = IF q.exc # NoException THEN NoAnswer
                                          ELSE [uuid_str |-> a.uuid_str,
                                                as_uint |-> a.as_uint]]
        /\ repeat' = <<>>
        /\ UNCHANGED fixed

\* A legacy query outside the try / except pattern: the index goes straight to
\* the native call, and rocm_lib is dereferenced unguarded.
smi_get_device_compute_partition(dev) ==
    \E a \in Answers(MarketNames, <<>>) :
        /\ last' = Enumerated(
                       EnumerationCalls(rocm_lib, nativeUp, _handle_initialized),
                       Call("smi_get_device_compute_partition", dev, NoDev, "",
                        IF rocm_lib = None THEN NotCalled ELSE a.ret,
                        IF rocm_lib = None THEN Raise("AttributeError")
                        ELSE IF rsmi_ret_ok(a.ret) THEN RetStr(a.v)
                        ELSE RetStr(<<>>)))
        /\ repeat' = <<>>
        /\ UNCHANGED <<_processor_handles, _handle_initialized>>
        /\ UNCHANGED fixed

HandleQueryOps ==
    {"smi_get_device_id", "smi_get_device_name", "smi_get_device_utilization",
     "smi_get_device_memory_total", "smi_is_device_p2p_accessible",
     "smi_get_device_uuid"}

StringOps == {"smi_get_device_name", "smi_get_device_uuid"}

\* The documented sentinel of a query.
Sentinel(op) == IF op \in StringOps THEN RetStr(<<>>) ELSE RetNum(0 - 1)

\* Query runs: a machine with at most one socket, and at most one smi_initialize
\* and one smi_shutdown that return, in either order.
QueryHwConfigs == {h \in HwConfigs : Len(h.socks) <= 1}

InitQuery ==
    /\ Init
    /\ hw \in QueryHwConfigs

QueryInitialize == nInitOk = 0 /\ smi_initialize

QueryShutdown == nShutdown = 0 /\ smi_shutdown

NextQuery ==
    \/ QueryInitialize
    \/ QueryShutdown
    \/ \E dev \in Devs : smi_get_device_id(dev)
    \/ \E dev \in Devs : smi_get_device_name(dev)
    \/ \E dev \in Devs : smi_get_device_utilization(dev)
    \/ \E dev \in Devs, type \in MemTypeArgs : smi_get_device_memory_total(dev, type)
    \/ \E dev_src \in Devs, dev_dst \in Devs :
            smi_is_device_p2p_accessible(dev_src, dev_dst)
    \/ \E dev \in Devs, format \in UuidFormats : smi_get_device_uuid(dev, format)
    \/ \E dev \in Devs : smi_get_device_compute_partition(dev)

SpecQuery == InitQuery /\ [][NextQuery]_vars

\* The status translator called at any point of a session.
NextTranslate ==
    \/ QueryInitialize
    \/ QueryShutdown
    \/ CallAmdsmiRetOk
    \/ CallRsmiRetOk

SpecTranslate == InitQuery /\ [][NextTranslate]_vars

\* ------------------------------------------------------- power, PCIe, processes
\* Unsigned integers of the ctypes structures are kept by their binary digits,
\* least significant first, so that a 32-bit or 64-bit field keeps its width.
Zeros(k) == [i \in 1..k |-> 0]
Ones(k) == [i \in 1..k |-> 1]

\* The digits without high-order zeros; <<>> is the number zero.
RECURSIVE Trim(_)
Trim(bits) ==
    IF bits = <<>> THEN <<>>
    ELSE IF bits[Len(bits)] = 0 THEN Trim(SubSeq(bits, 1, Len(bits) - 1))
    ELSE bits

\* bits * 2^k and the integer part of bits / 2^k.
ShiftLeft(bits, k) == Trim(Zeros(k) \o bits)
ShiftRight(bits, k) ==
    IF k >= Len(bits) THEN <<>> ELSE Trim(SubSeq(bits, k + 1, Len(bits)))

RECURSIVE Increment(_)
Increment(bits) ==
    IF bits = <<>> THEN <<1>>
    ELSE IF Head(bits) = 0 THEN <<1>> \o Tail(bits)
    ELSE <<0>> \o Increment(Tail(bits))

\* Field widths of amdsmi_power_info_t and amdsmi_pcie_metric_t, the width of
\* the significand of a Python float, and the factors 1024 = 2^10, 8 = 2^3.
PowerBits == 32
SocketPowerBits == 64
BandwidthBits == 32
FloatMantissa == 53
KibiShift == 10
ByteShift == 3

\* The float nearest to the integer bits with a significand of m digits, ties
\* to even: the value is mant * 2^exp.
RoundNearestEven(bits, m) ==
    LET n == Trim(bits)
        d == Len(n) - m
    IN  IF d <= 0 THEN [mant |-> n, exp |-> 0]
        ELSE LET kept == ShiftRight(n, d)
                 half == n[d] = 1
                 sticky == \E i \in 1..(d - 1) : n[i] = 1
                 up == half /\ (sticky \/ kept[1] = 1)
             IN  [mant |-> IF up THEN Increment(kept) ELSE kept, exp |-> d]

\* float(bits)
FloatOfInt(bits) == RoundNearestEven(bits, FloatMantissa)

\* Mutant: the division is carried out in single precision.
TrueDivPow2_single(bits, k) ==
    LET f == RoundNearestEven(bits, 24) IN [mant |-> f.mant, exp |-> f.exp - k]

\* bits / 2^k of two Python ints: the float nearest to the quotient.
TrueDivPow2(bits, k) ==
    LET f == RoundNearestEven(bits, FloatMantissa)
    IN  [mant |-> f.mant, exp |-> f.exp - k]

\* int(f): the integer part.
IntOfFloat(f) ==
    IF f.exp >= 0 THEN ShiftLeft(f.mant, f.exp) ELSE ShiftRight(f.mant, 0 - f.exp)

\* Results beyond the constructors above: a float, an int given by its digits,
\* a list.
RetFloat(f) ==
    [kind |-> "float", exc |-> NoException, num |-> f.exp,
     str |-> <<>>, h |-> <<>>, seq |-> f.mant]
RetWide(bits) ==
    [kind |-> "wide", exc |-> NoException, num |-> 0,
     str |-> <<>>, h |-> <<>>, seq |-> bits]
RetList(items) ==
    [kind |-> "list", exc |-> NoException, num |-> 0,
     str |-> <<>>, h |-> <<>>, seq |-> items]

\* What amdsmi_get_power_info may fill in.
CurrentPowers == {Zeros(PowerBits), <<1>> \o Zeros(PowerBits - 1)}
AveragePowers == {Zeros(PowerBits), <<0, 1>> \o Zeros(PowerBits - 2)}
SocketPowers ==
    {Zeros(SocketPowerBits), <<1, 1>> \o Zeros(SocketPowerBits - 2),
     Ones(SocketPowerBits)}

PowerAnswers ==
    {[ret |-> AMDSMI_STATUS_SUCCESS, cur |-> c, avg |-> a, sock |-> k] :
        c \in CurrentPowers, a \in AveragePowers, k \in SocketPowers}
    \cup {[ret |-> r, cur |-> Zeros(PowerBits), avg |-> Zeros(PowerBits),
           sock |-> Zeros(SocketPowerBits)] :
            r \in Status \ {AMDSMI_STATUS_SUCCESS}}

Positive(bits) == Trim(bits) # <<>>

\* Mutant: the average is preferred to the current reading.
AveragePower_average_first(cur, avg, socket_power) ==
    IF Positive(avg) THEN RetFloat(FloatOfInt(avg))
    ELSE IF Positive(cur) THEN RetFloat(FloatOfInt(cur))
    ELSE IF Positive(socket_power) THEN RetFloat(FloatOfInt(socket_power))
    ELSE RetNum(0 - 1)

\* The if / elif chain of smi_get_device_average_power on a successful call.
AveragePower(cur, avg, socket_power) ==
    IF Positive(cur) THEN RetFloat(FloatOfInt(cur))
    ELSE IF Positive(avg) THEN RetFloat(FloatOfInt(avg))
    ELSE IF Positive(socket_power) THEN RetFloat(FloatOfInt(socket_power))
    ELSE RetNum(0 - 1)

smi_get_device_average_power(dev) ==
    \E a \in PowerAnswers :
        LET q == QueryLookup(dev, NoDev) IN
        /\ _processor_handles' = q.handles
        /\ _handle_initialized' = q.flag
        /\ last' = [Call("smi_get_device_average_power", dev, NoDev, "",
                         NativeSeen(q.exc, a.ret),
                         Guarded(q.exc, a.ret, AveragePower(a.cur, a.avg, a.sock),
                                 RetNum(0 - 1)))
                        EXCEPT !.enum = EnumerationCalls(rocm_lib, nativeUp,
                                                        _handle_initialized),
                               !.reply = IF q.exc # NoException THEN <<>>
                                         ELSE <<a.cur, a.avg, a.sock>>]
        /\ repeat' = <<>>
        /\ UNCHANGED fixed

\* What amdsmi_get_pcie_info may report as pcie_bandwidth, in Mb/s.
Bandwidths ==
    {Zeros(BandwidthBits), <<1>> \o Zeros(BandwidthBits - 1),
     <<1, 0, 1>> \o Zeros(BandwidthBits - 3),
     Zeros(BandwidthBits - 1) \o <<1>>, Ones(BandwidthBits)}

\* int(bandwidth_mbps * 1024 * 1024 / 8) if bandwidth_mbps > 0 else 0
PcieThroughput(bandwidth_mbps) ==
    IF Positive(bandwidth_mbps)
    THEN RetWide(IntOfFloat(TrueDivPow2(
             ShiftLeft(ShiftLeft(bandwidth_mbps, KibiShift), KibiShift),
             ByteShift)))
    ELSE RetNum(0)

smi_get_device_pcie_throughput(dev) ==
    \E a \in Answers(Bandwidths, Zeros(BandwidthBits)) :
        LET q == QueryLookup(dev, NoDev) IN
        /\ _processor_handles' = q.handles
        /\ _handle_initialized' = q.flag
        /\ last' = [Call("smi_get_device_pcie_throughput", dev, NoDev, "",
                         NativeSeen(q.exc, a.ret),
                         Guarded(q.exc, a.ret, PcieThroughput(a.v), RetNum(0 - 1)))
                        EXCEPT !.enum = EnumerationCalls(rocm_lib, nativeUp,
                                                        _handle_initialized),
                               !.reply = IF q.exc # NoException THEN <<>>
                                         ELSE <<a.v>>]
        /\ repeat' = <<>>
        /\ UNCHANGED fixed

\* The counted fetch of smi_get_device_compute_process: the buffer holds ten
\* entries more than the first call counted.
MaxProcesses == 1
BufferSlack == 10

\* What the second call may leave in num_procs after the first left first.
SecondCounts(first) == {0, first, first + BufferSlack, first + BufferSlack + 1}

\* The list built from the buffer of buff_sz entries when the second call
\* reports count entries: indexing a ctypes array outside 0..buff_sz-1 raises
\* IndexError.
ReadBuffer(buff_sz, count) ==
    IF count > buff_sz THEN Raise("IndexError")
    ELSE RetList([i \in 1..count |-> i])

ComputeProcessResult(ret, first, ret2, second) ==
    IF ~rsmi_ret_ok(ret) THEN RetList(<<>>)
    ELSE IF ~rsmi_ret_ok(ret2) THEN RetList(<<>>)
    ELSE ReadBuffer(first + BufferSlack, second)

smi_get_device_compute_process ==
    /\ IF rocm_lib = None
       THEN last' = Call("smi_get_device_compute_process", NoDev, NoDev, "",
                         NotCalled, Raise("AttributeError"))
       ELSE \E ret \in Status, ret2 \in Status, first \in 0..MaxProcesses :
            \E second \in SecondCounts(first) :
                last' = [Call("smi_get_device_compute_process", NoDev, NoDev, "",
                              ret, ComputeProcessResult(ret, first, ret2, second))
                             EXCEPT !.native2 = IF rsmi_ret_ok(ret) THEN ret2
                                                ELSE NotCalled,
                                    !.counts = IF rsmi_ret_ok(ret)
                                               THEN <<first, second>>
                                               ELSE <<first>>]
    /\ repeat' = <<>>
    /\ UNCHANGED <<_processor_handles, _handle_initialized>>
    /\ UNCHANGED fixed

NextMetric ==
    \/ QueryInitialize
    \/ QueryShutdown
    \/ \E dev \in Devs : smi_get_device_average_power(dev)
    \/ \E dev \in Devs : smi_get_device_pcie_throughput(dev)
    \/ smi_get_device_compute_process

SpecMetric == InitQuery /\ [][NextMetric]_vars

\* ----------------------------------------------------------------- threads
\* Threads calling _load_rocm_library, directly or as the first statement of
\* smi_initialize, one source line a step.
Goto(t, label) == pc' = [pc EXCEPT ![t] = label]

sequential == <<last, everInit, lifeLast, nShutdown, cyc, len1, len2, repeat, hw>>

InitCallsOpen == Cardinality({u \in Threads : ctx[u] = "init"})

CallLoad(t) ==
    /\ pc[t] = "idle"
    /\ ctx' = [ctx EXCEPT ![t] = "load"]
    /\ Goto(t, "load_check")
    /\ UNCHANGED <<session, nativeUp, nInitOk, loads, loaders, texc, sequential>>
    /\ UNCHANGED locals

CallInitialize(t) ==
    /\ pc[t] = "idle"
    /\ nInitOk + InitCallsOpen < MaxCalls
    /\ ctx' = [ctx EXCEPT ![t] = "init"]
    /\ Goto(t, "load_check")
    /\ UNCHANGED <<session, nativeUp, nInitOk, loads, loaders, texc, sequential>>
    /\ UNCHANGED locals

\* Return from _load_rocm_library without an exception.
LoadReturns(t) ==
    IF ctx[t] = "init"
    THEN Goto(t, "init_native") /\ UNCHANGED ctx
    ELSE Goto(t, "idle") /\ ctx' = [ctx EXCEPT ![t] = "none"]

\* if rocm_lib == None, read without the lock
LoadCheck(t) ==
    /\ pc[t] = "load_check"
    /\ IF rocm_lib = None
       THEN Goto(t, "load_acquire") /\ UNCHANGED ctx
       ELSE LoadReturns(t)
    /\ UNCHANGED <<session, nativeUp, nInitOk, loads, loaders, texc, sequential>>
    /\ UNCHANGED locals

LoadAcquire(t) ==
    /\ pc[t] = "load_acquire"
    /\ lib_load_lock = 0
    /\ lib_load_lock' = t
    /\ Goto(t, "load_recheck")
    /\ UNCHANGED <<rocm_lib, _rocm_lib_refcount, _processor_handles,
                   _handle_initialized, nativeUp, nInitOk, loads, loaders, ctx, texc,
                   sequential>>
    /\ UNCHANGED locals

\* Mutant: the test under the lock is missing.
LoadRecheck_missing(t) ==
    /\ pc[t] = "load_recheck"
    /\ Goto(t, "load_open")
    /\ UNCHANGED <<session, nativeUp, nInitOk, loads, loaders, ctx, texc, sequential>>
    /\ UNCHANGED locals

\* if rocm_lib == None, read again under the lock
LoadRecheck(t) ==
    /\ pc[t] = "load_recheck"
    /\ IF rocm_lib = None THEN Goto(t, "load_open") ELSE Goto(t, "load_release")
    /\ UNCHANGED <<session, nativeUp, nInitOk, loads, loaders, ctx, texc, sequential>>
    /\ UNCHANGED locals

\* The platform check, the file search and the two loader calls.
LoadOpen(t) ==
    /\ pc[t] = "load_open"
    /\ \E env \in LoadEnvs :
        LET ld == _load_rocm_library(None, env) IN
        /\ rocm_lib' = IF ld.exc = NoException THEN ld.lib ELSE rocm_lib
        /\ loads' = IF ld.exc = NoException THEN loads + 1 ELSE loads
        /\ loaders' = IF ld.exc = NoException THEN loaders \cup {t} ELSE loaders
        /\ texc' = [texc EXCEPT ![t] = ld.exc]
    /\ Goto(t, "load_release")
    /\ UNCHANGED <<lib_load_lock, _rocm_lib_refcount, _processor_handles,
                   _handle_initialized, nativeUp, nInitOk, ctx, sequential>>
    /\ UNCHANGED locals

\* finally: lib_load_lock.release(); a pending exception then ends the call.
LoadRelease(t) ==
    /\ pc[t] = "load_release"
    /\ lib_load_lock' = 0
    /\ IF texc[t] # NoException
       THEN /\ Goto(t, "idle")
            /\ ctx' = [ctx EXCEPT ![t] = "none"]
            /\ texc' = [texc EXCEPT ![t] = NoException]
       ELSE LoadReturns(t) /\ UNCHANGED texc
    /\ UNCHANGED <<rocm_lib, _rocm_lib_refcount, _processor_handles,
                   _handle_initialized, nativeUp, nInitOk, loads, loaders, sequential>>
    /\ UNCHANGED locals

\* The driver check and amdsmi_init of smi_initialize.
InitNative(t) ==
    /\ pc[t] = "init_native"
    /\ \E driverLive \in BOOLEAN, ret_init \in Status :
        IF driverLive /\ ret_init = AMDSMI_STATUS_SUCCESS
        THEN nativeUp' = TRUE /\ Goto(t, "init_handles") /\ UNCHANGED ctx
        ELSE /\ Goto(t, "idle")
             /\ ctx' = [ctx EXCEPT ![t] = "none"]
             /\ UNCHANGED nativeUp
    /\ UNCHANGED <<session, nInitOk, loads, loaders, texc, sequential>>
    /\ UNCHANGED locals

\* The _init_processor_handles() call of smi_initialize.
InitHandles(t) ==
    /\ pc[t] = "init_handles"
    /\ LET p == _init_processor_handles(rocm_lib, nativeUp, _processor_handles,
                                        _handle_initialized)
       IN  /\ _processor_handles' = p.handles
           /\ _handle_initialized' = p.flag
    /\ Goto(t, "init_acquire")
    /\ UNCHANGED <<rocm_lib, lib_load_lock, _rocm_lib_refcount, nativeUp, nInitOk,
                   loads, loaders, ctx, texc, sequential>>
    /\ UNCHANGED locals

InitAcquire(t) ==
    /\ pc[t] = "init_acquire"
    /\ lib_load_lock = 0
    /\ lib_load_lock' = t
    /\ Goto(t, "init_read")
    /\ UNCHANGED <<rocm_lib, _rocm_lib_refcount, _processor_handles,
                   _handle_initialized, nativeUp, nInitOk, loads, loaders, ctx, texc,
                   sequential>>
    /\ UNCHANGED locals

\* _rocm_lib_refcount += 1: the read of the global ...
InitRead(t) ==
    /\ pc[t] = "init_read"
    /\ tmp' = [tmp EXCEPT ![t] = _rocm_lib_refcount]
    /\ Goto(t, "init_count")
    /\ UNCHANGED <<session, nativeUp, nInitOk, loads, loaders, ctx, texc, sequential,
                   targ, sock, todo, chk, nCalls>>

\* ... and the store of the sum.
InitCount(t) ==
    /\ pc[t] = "init_count"
    /\ _rocm_lib_refcount' = RefcountAfterInit(tmp[t])
    /\ tmp' = [tmp EXCEPT ![t] = 0]
    /\ Goto(t, "init_release")
    /\ UNCHANGED <<rocm_lib, lib_load_lock, _processor_handles, _handle_initialized,
                   nativeUp, nInitOk, loads, loaders, ctx, texc, sequential,
                   targ, sock, todo, chk, nCalls>>

InitRelease(t) ==
    /\ pc[t] = "init_release"
    /\ lib_load_lock' = 0
    /\ nInitOk' = nInitOk + 1
    /\ Goto(t, "idle")
    /\ ctx' = [ctx EXCEPT ![t] = "none"]
    /\ UNCHANGED <<rocm_lib, _rocm_lib_refcount, _processor_handles,
                   _handle_initialized, nativeUp, loads, loaders, texc, sequential>>
    /\ UNCHANGED locals

InitLoad ==
    /\ Init
    /\ hw \in QueryHwConfigs

NextLoad ==
    \E t \in Threads :
        \/ CallLoad(t)
        \/ CallInitialize(t)
        \/ LoadCheck(t)
        \/ LoadAcquire(t)
        \/ LoadRecheck(t)
        \/ LoadOpen(t)
        \/ LoadRelease(t)
        \/ InitNative(t)
        \/ InitHandles(t)
        \/ InitAcquire(t)
        \/ InitRead(t)
        \/ InitCount(t)
        \/ InitRelease(t)

SpecLoad == InitLoad /\ [][NextLoad]_vars

\* ------------------------------------------------- threads in smi_shutdown
ShutdownCallsOpen == Cardinality({u \in Threads : ctx[u] = "shutdown"})

CallShutdown(t) ==
    /\ pc[t] = "idle"
    /\ nShutdown + ShutdownCallsOpen < MaxCalls
    /\ ctx' = [ctx EXCEPT ![t] = "shutdown"]
    /\ Goto(t, "shut_native")
    /\ UNCHANGED <<session, nativeUp, nInitOk, loads, loaders, texc, sequential,
                   locals>>

\* rocm_lib.amdsmi_shut_down() and the translation of its status; without a
\* library the attribute lookup raises and ends the call.
ShutNative(t) ==
    /\ pc[t] = "shut_native"
    /\ IF rocm_lib = None
       THEN /\ Goto(t, "idle")
            /\ ctx' = [ctx EXCEPT ![t] = "none"]
            /\ UNCHANGED nativeUp
       ELSE /\ \E ret \in Status :
                nativeUp' = IF amdsmi_ret_ok(ret) THEN FALSE ELSE nativeUp
            /\ Goto(t, "shut_table")
            /\ UNCHANGED ctx
    /\ UNCHANGED <<session, nInitOk, loads, loaders, texc, sequential, locals>>

\* _processor_handles = []
ShutTable(t) ==
    /\ pc[t] = "shut_table"
    /\ _processor_handles' =
            ClearedHandles(_processor_handles, _handle_initialized).handles
    /\ Goto(t, "shut_flag")
    /\ UNCHANGED <<rocm_lib, lib_load_lock, _rocm_lib_refcount, _handle_initialized,
                   nativeUp, nInitOk, loads, loaders, ctx, texc, sequential, locals>>

\* _handle_initialized = False
ShutFlag(t) ==
    /\ pc[t] = "shut_flag"
    /\ _handle_initialized' =
            ClearedHandles(_processor_handles, _handle_initialized).flag
    /\ Goto(t, "shut_acquire")
    /\ UNCHANGED <<rocm_lib, lib_load_lock, _rocm_lib_refcount, _processor_handles,
                   nativeUp, nInitOk, loads, loaders, ctx, texc, sequential, locals>>

\* Mutant: the lock is taken without waiting for its holder.
ShutAcquire_no_wait(t) ==
    /\ pc[t] = "shut_acquire"
    /\ lib_load_lock' = t
    /\ Goto(t, "shut_read")
    /\ UNCHANGED <<rocm_lib, _rocm_lib_refcount, _processor_handles,
                   _handle_initialized, nativeUp, nInitOk, loads, loaders, ctx, texc,
                   sequential, locals>>

ShutAcquire(t) ==
    /\ pc[t] = "shut_acquire"
    /\ lib_load_lock = 0
    /\ lib_load_lock' = t
    /\ Goto(t, "shut_read")
    /\ UNCHANGED <<rocm_lib, _rocm_lib_refcount, _processor_handles,
                   _handle_initialized, nativeUp, nInitOk, loads, loaders, ctx, texc,
                   sequential, locals>>

\* _rocm_lib_refcount -= 1: the read of the global ...
ShutRead(t) ==
    /\ pc[t] = "shut_read"
    /\ tmp' = [tmp EXCEPT ![t] = _rocm_lib_refcount]
    /\ Goto(t, "shut_count")
    /\ UNCHANGED <<session, nativeUp, nInitOk, loads, loaders, ctx, texc, sequential,
                   targ, sock, todo, chk, nCalls>>

\* ... and the store of the difference.
ShutCount(t) ==
    /\ pc[t] = "shut_count"
    /\ _rocm_lib_refcount' = RefcountAfterShutdown(tmp[t])
    /\ tmp' = [tmp EXCEPT ![t] = 0]
    /\ Goto(t, "shut_release")
    /\ UNCHANGED <<rocm_lib, lib_load_lock, _processor_handles, _handle_initialized,
                   nativeUp, nInitOk, loads, loaders, ctx, texc, sequential,
                   targ, sock, todo, chk, nCalls>>

\* lib_load_lock.release() and the return of smi_shutdown.
ShutRelease(t) ==
    /\ pc[t] = "shut_release"
    /\ lib_load_lock' = 0
    /\ nShutdown' = nShutdown + 1
    /\ Goto(t, "idle")
    /\ ctx' = [ctx EXCEPT ![t] = "none"]
    /\ UNCHANGED <<rocm_lib, _rocm_lib_refcount, _processor_handles,
                   _handle_initialized, nativeUp, nInitOk, loads, loaders, texc,
                   last, everInit, lifeLast, cyc, len1, len2, repeat, hw, locals>>

NextShutdown ==
    \E t \in Threads :
        \/ CallShutdown(t)
        \/ ShutNative(t)
        \/ ShutTable(t)
        \/ ShutFlag(t)
        \/ ShutAcquire(t)
        \/ ShutRead(t)
        \/ ShutCount(t)
        \/ ShutRelease(t)

\* Threads calling smi_initialize and smi_shutdown on a machine with one socket
\* that enumerates.
LifeHwConfigs ==
    {h \in HwConfigs : h.socks = OneGoodSocket /\ amdsmi_ret_ok(h.cntRet)
                                               /\ amdsmi_ret_ok(h.getRet)}

InitLife ==
    /\ Init
    /\ hw \in LifeHwConfigs

NextLife == NextLoad \/ NextShutdown

SpecLife == InitLife /\ [][NextLife]_vars

\* ------------------------------------------------ threads looking up symbols
\* _rocml_get_function_ptr, one statement a step.
CallGetFunctionPtr(t) ==
    /\ pc[t] = "idle"
    /\ ctx' = [ctx EXCEPT ![t] = "ptr"]
    /\ Goto(t, "ptr_cache")
    /\ UNCHANGED <<session, nativeUp, nInitOk, loads, loaders, texc, sequential,
                   locals>>

\* if name in _rocml_get_function_ptr_cache: return.  A name is in the cache
\* only after a lookup on a loaded library stored it.
PtrCache(t) ==
    /\ pc[t] = "ptr_cache"
    /\ \E cached \in (IF rocm_lib = None THEN {FALSE} ELSE BOOLEAN) :
        IF cached
        THEN Goto(t, "idle") /\ ctx' = [ctx EXCEPT ![t] = "none"]
        ELSE Goto(t, "ptr_acquire") /\ UNCHANGED ctx
    /\ UNCHANGED <<session, nativeUp, nInitOk, loads, loaders, texc, sequential,
                   locals>>

PtrAcquire(t) ==
    /\ pc[t] = "ptr_acquire"
    /\ lib_load_lock = 0
    /\ lib_load_lock' = t
    /\ Goto(t, "ptr_lookup")
    /\ UNCHANGED <<rocm_lib, _rocm_lib_refcount, _processor_handles,
                   _handle_initialized, nativeUp, nInitOk, loads, loaders, ctx, texc,
                   sequential, locals>>

\* Mutant: the exceptions leave the function without passing the release.
PtrLookup_no_finally(t) ==
    /\ pc[t] = "ptr_lookup"
    /\ \E found \in BOOLEAN :
        IF rocm_lib = None \/ ~found
        THEN Goto(t, "idle") /\ ctx' = [ctx EXCEPT ![t] = "none"]
        ELSE Goto(t, "ptr_release") /\ UNCHANGED ctx
    /\ UNCHANGED <<session, nativeUp, nInitOk, loads, loaders, texc, sequential,
                   locals>>

\* The body of the try: ROCMLError_Uninitialized without a library, else
\* getattr, whose AttributeError becomes ROCMLError_FunctionNotFound.  Each
\* way out passes the finally clause.
PtrLookup(t) ==
    /\ pc[t] = "ptr_lookup"
    /\ \E found \in BOOLEAN :
        texc' = [texc EXCEPT ![t] =
                    IF rocm_lib = None THEN "ROCMLError_Uninitialized"
                    ELSE IF found THEN NoException
                    ELSE "ROCMLError_FunctionNotFound"]
    /\ Goto(t, "ptr_release")
    /\ UNCHANGED <<session, nativeUp, nInitOk, loads, loaders, ctx, sequential,
                   locals>>

\* finally: lib_load_lock.release()
PtrRelease(t) ==
    /\ pc[t] = "ptr_release"
    /\ lib_load_lock' = 0
    /\ texc' = [texc EXCEPT ![t] = NoException]
    /\ Goto(t, "idle")
    /\ ctx' = [ctx EXCEPT ![t] = "none"]
    /\ UNCHANGED <<rocm_lib, _rocm_lib_refcount, _processor_handles,
                   _handle_initialized, nativeUp, nInitOk, loads, loaders,
                   sequential, locals>>

\* Thread 1 owns the session and calls smi_initialize and smi_shutdown; the
\* other threads call _load_rocm_library and _rocml_get_function_ptr.
LockInitialize(t) == t = 1 /\ CallInitialize(t)

LockShutdown(t) == t = 1 /\ CallShutdown(t)

LockLoad(t) == t # 1 /\ CallLoad(t)

LockGetFunctionPtr(t) == t # 1 /\ CallGetFunctionPtr(t)

NextLock ==
    \/ \E t \in Threads :
        \/ LockLoad(t)
        \/ LockInitialize(t)
        \/ LoadCheck(t)
        \/ LoadAcquire(t)
        \/ LoadRecheck(t)
        \/ LoadOpen(t)
        \/ LoadRelease(t)
        \/ InitNative(t)
        \/ InitHandles(t)
        \/ InitAcquire(t)
        \/ InitRead(t)
        \/ InitCount(t)
        \/ InitRelease(t)
    \/ \E t \in Threads :
        \/ LockShutdown(t)
        \/ ShutNative(t)
        \/ ShutTable(t)
        \/ ShutFlag(t)
        \/ ShutAcquire(t)
        \/ ShutRead(t)
        \/ ShutCount(t)
        \/ ShutRelease(t)
    \/ \E t \in Threads :
        \/ LockGetFunctionPtr(t)
        \/ PtrCache(t)
        \/ PtrAcquire(t)
        \/ PtrLookup(t)
        \/ PtrRelease(t)

\* The statements executed with lib_load_lock held.
LockedLabels ==
    {"load_recheck", "load_open", "load_release", "init_read", "init_count",
     "init_release", "shut_read", "shut_count", "shut_release", "ptr_lookup",
     "ptr_release"}

\* A step of thread t while it holds the lock.
HolderStep(t) ==
    \/ LoadRecheck(t)
    \/ LoadOpen(t)
    \/ LoadRelease(t)
    \/ InitRead(t)
    \/ InitCount(t)
    \/ InitRelease(t)
    \/ ShutRead(t)
    \/ ShutCount(t)
    \/ ShutRelease(t)
    \/ PtrLookup(t)
    \/ PtrRelease(t)

\* A thread that holds the lock is running straight-line code that waits for
\* nothing: the scheduler lets it take its next step.
SpecLock ==
    /\ InitLife
    /\ [][NextLock]_vars
    /\ \A t \in Threads : WF_vars(HolderStep(t))

\* ------------------------------------------- threads reading the handle table
\* _init_processor_handles statement by statement, as smi_initialize,
\* _get_processor_handle and smi_get_device_count call it.
sequentialButLast == <<everInit, lifeLast, nShutdown, cyc, len1, len2, repeat, hw>>

\* Where _init_processor_handles returns to.
PopReturn(t) ==
    IF ctx[t] = "init" THEN "init_acquire"
    ELSE IF ctx[t] = "resolve" THEN "res_range"
    ELSE "cnt_len"

\* _init_processor_handles() in smi_initialize
InitPopulate(t) ==
    /\ pc[t] = "init_handles"
    /\ Goto(t, "pop_check")
    /\ UNCHANGED <<session, nativeUp, nInitOk, loads, loaders, ctx, texc, sequential,
                   locals>>

\* if _handle_initialized: return
PopCheck(t) ==
    /\ pc[t] = "pop_check"
    /\ IF _handle_initialized THEN Goto(t, PopReturn(t)) ELSE Goto(t, "pop_reset")
    /\ UNCHANGED <<session, nativeUp, nInitOk, loads, loaders, ctx, texc, sequential,
                   locals>>

\* _processor_handles = []
PopReset(t) ==
    /\ pc[t] = "pop_reset"
    /\ _processor_handles' = <<>>
    /\ Goto(t, "pop_enum")
    /\ UNCHANGED <<rocm_lib, lib_load_lock, _rocm_lib_refcount, _handle_initialized,
                   nativeUp, nInitOk, loads, loaders, ctx, texc, sequential, locals>>

\* The two amdsmi_get_socket_handles calls: without a library the attribute
\* lookup raises; a failed call or zero sockets returns; else the loop starts.
PopEnum(t) ==
    /\ pc[t] = "pop_enum"
    /\ IF rocm_lib = None
       THEN Goto(t, "pop_except") /\ UNCHANGED sock
       ELSE IF \/ ~amdsmi_ret_ok(NativeEnumRet(hw, nativeUp, hw.cntRet))
               \/ Len(hw.socks) = 0
               \/ ~amdsmi_ret_ok(NativeEnumRet(hw, nativeUp, hw.getRet))
            THEN Goto(t, PopReturn(t)) /\ UNCHANGED sock
       ELSE Goto(t, "pop_socket") /\ sock' = [sock EXCEPT ![t] = 1]
    /\ UNCHANGED <<session, nativeUp, nInitOk, loads, loaders, ctx, texc, sequential,
                   tmp, targ, todo, chk, nCalls>>

\* One iteration of the socket loop up to the inner loop: the two
\* amdsmi_get_processor_handles calls of socket sock[t].
PopSocket(t) ==
    /\ pc[t] = "pop_socket"
    /\ IF sock[t] > Len(hw.socks)
       THEN Goto(t, "pop_flag") /\ UNCHANGED todo
       ELSE /\ todo' = [todo EXCEPT ![t] = SocketHandles(hw, nativeUp, sock[t])]
            /\ Goto(t, "pop_append")
    /\ UNCHANGED <<session, nativeUp, nInitOk, loads, loaders, ctx, texc, sequential,
                   tmp, targ, sock, chk, nCalls>>

\* _processor_handles.append(proc_handles[j]), or the end of the inner loop.
PopAppend(t) ==
    /\ pc[t] = "pop_append"
    /\ IF todo[t] = <<>>
       THEN /\ sock' = [sock EXCEPT ![t] = sock[t] + 1]
            /\ Goto(t, "pop_socket")
            /\ UNCHANGED <<_processor_handles, todo>>
       ELSE /\ _processor_handles' = Append(_processor_handles, Head(todo[t]))
            /\ todo' = [todo EXCEPT ![t] = Tail(todo[t])]
            /\ UNCHANGED <<pc, sock>>
    /\ UNCHANGED <<rocm_lib, lib_load_lock, _rocm_lib_refcount, _handle_initialized,
                   nativeUp, nInitOk, loads, loaders, ctx, texc, sequential,
                   tmp, targ, chk, nCalls>>

\* _handle_initialized = True
PopFlag(t) ==
    /\ pc[t] = "pop_flag"
    /\ _handle_initialized' = TRUE
    /\ sock' = [sock EXCEPT ![t] = 0]
    /\ Goto(t, PopReturn(t))
    /\ UNCHANGED <<rocm_lib, lib_load_lock, _rocm_lib_refcount, _processor_handles,
                   nativeUp, nInitOk, loads, loaders, ctx, texc, sequential,
                   tmp, targ, todo, chk, nCalls>>

\* except Exception: _processor_handles = []
PopExcept(t) ==
    /\ pc[t] = "pop_except"
    /\ _processor_handles' = <<>>
    /\ Goto(t, PopReturn(t))
    /\ UNCHANGED <<rocm_lib, lib_load_lock, _rocm_lib_refcount, _handle_initialized,
                   nativeUp, nInitOk, loads, loaders, ctx, texc, sequential, locals>>

CallResolve(t) ==
    /\ pc[t] = "idle"
    /\ nCalls < MaxCalls
    /\ nCalls' = nCalls + 1
    /\ \E device_index \in Devs : targ' = [targ EXCEPT ![t] = device_index]
    /\ ctx' = [ctx EXCEPT ![t] = "resolve"]
    /\ chk' = [chk EXCEPT ![t] = <<>>]
    /\ Goto(t, "res_flag")
    /\ UNCHANGED <<session, nativeUp, nInitOk, loads, loaders, texc, sequential,
                   tmp, sock, todo>>

\* if not _handle_initialized: _init_processor_handles()
ResFlag(t) ==
    /\ pc[t] = "res_flag"
    /\ IF _handle_initialized THEN Goto(t, "res_range") ELSE Goto(t, "pop_check")
    /\ UNCHANGED <<session, nativeUp, nInitOk, loads, loaders, ctx, texc, sequential,
                   locals>>

\* The range check against len(_processor_handles).
ResRange(t) ==
    /\ pc[t] = "res_range"
    /\ LET r == HandleLookup(_processor_handles, targ[t]) IN
       IF r.exc # NoException
       THEN /\ last' = Call("_get_processor_handle", targ[t], NoDev, "", NotCalled,
                            Raise(r.exc))
            /\ Goto(t, "idle")
            /\ ctx' = [ctx EXCEPT ![t] = "none"]
            /\ UNCHANGED chk
       ELSE /\ chk' = [chk EXCEPT ![t] = r.h]
            /\ Goto(t, "res_index")
            /\ UNCHANGED <<last, ctx>>
    /\ UNCHANGED <<session, nativeUp, nInitOk, loads, loaders, texc,
                   sequentialButLast, tmp, targ, sock, todo, nCalls>>

\* return _processor_handles[device_index]: the table is read again.
ResIndex(t) ==
    /\ pc[t] = "res_index"
    /\ last' = Call("_get_processor_handle", targ[t], NoDev, "", NotCalled,
                    IF targ[t] >= Len(_processor_handles)
                    THEN Raise("IndexError")
                    ELSE RetHandle(_processor_handles[targ[t] + 1]))
    /\ Goto(t, "idle")
    /\ ctx' = [ctx EXCEPT ![t] = "none"]
    /\ UNCHANGED <<session, nativeUp, nInitOk, loads, loaders, texc,
                   sequentialButLast, locals>>

CallCount(t) ==
    /\ pc[t] = "idle"
    /\ nCalls < MaxCalls
    /\ nCalls' = nCalls + 1
    /\ ctx' = [ctx EXCEPT ![t] = "count"]
    /\ Goto(t, "cnt_flag")
    /\ UNCHANGED <<session, nativeUp, nInitOk, loads, loaders, texc, sequential,
                   tmp, targ, sock, todo, chk>>

\* if not _handle_initialized: _init_processor_handles()
CntFlag(t) ==
    /\ pc[t] = "cnt_flag"
    /\ IF _handle_initialized THEN Goto(t, "cnt_len") ELSE Goto(t, "pop_check")
    /\ UNCHANGED <<session, nativeUp, nInitOk, loads, loaders, ctx, texc, sequential,
                   locals>>

\* return len(_processor_handles)
CntLen(t) ==
    /\ pc[t] = "cnt_len"
    /\ last' = Call("smi_get_device_count", NoDev, NoDev, "", NotCalled,
                    RetNum(Len(_processor_handles)))
    /\ Goto(t, "idle")
    /\ ctx' = [ctx EXCEPT ![t] = "none"]
    /\ UNCHANGED <<session, nativeUp, nInitOk, loads, loaders, texc,
                   sequentialButLast, locals>>

\* Machines with one socket whose processors all enumerate.
RaceHwConfigs ==
    {h \in LifeHwConfigs : ~h.needsInit}
    \cup {[cntRet |-> AMDSMI_STATUS_SUCCESS, getRet |-> AMDSMI_STATUS_SUCCESS,
           socks |-> <<[cntRet |-> AMDSMI_STATUS_SUCCESS,
                        getRet |-> AMDSMI_STATUS_SUCCESS, n |-> MaxProcs]>>,
           needsInit |-> FALSE]}

InitRace ==
    /\ Init
    /\ hw \in RaceHwConfigs

\* Thread 1 owns the session: it makes one smi_initialize and one smi_shutdown
\* call.  The other threads read the table.
RaceInitialize(t) == t = 1 /\ nInitOk + InitCallsOpen = 0 /\ CallInitialize(t)

RaceShutdown(t) == t = 1 /\ nShutdown + ShutdownCallsOpen = 0 /\ CallShutdown(t)

RaceResolve(t) == t # 1 /\ CallResolve(t)

RaceCount(t) == t # 1 /\ CallCount(t)

NextRace ==
    \/ \E t \in Threads :
        \/ RaceShutdown(t)
        \/ ShutNative(t)
        \/ ShutTable(t)
        \/ ShutFlag(t)
        \/ ShutAcquire(t)
        \/ ShutRead(t)
        \/ ShutCount(t)
        \/ ShutRelease(t)
    \/ \E t \in Threads :
        \/ RaceInitialize(t)
        \/ LoadCheck(t)
        \/ LoadAcquire(t)
        \/ LoadRecheck(t)
        \/ LoadOpen(t)
        \/ LoadRelease(t)
        \/ InitNative(t)
        \/ InitPopulate(t)
        \/ InitAcquire(t)
        \/ InitRead(t)
        \/ InitCount(t)
        \/ InitRelease(t)
    \/ \E t \in Threads :
        \/ PopCheck(t)
        \/ PopReset(t)
        \/ PopEnum(t)
        \/ PopSocket(t)
        \/ PopAppend(t)
        \/ PopFlag(t)
        \/ PopExcept(t)
    \/ \E t \in Threads :
        \/ RaceResolve(t)
        \/ ResFlag(t)
        \/ ResRange(t)
        \/ ResIndex(t)
        \/ RaceCount(t)
        \/ CntFlag(t)
        \/ CntLen(t)

SpecRace == InitRace /\ [][NextRace]_vars

\* ------------------------------------------------------------------ claims
Returned(op) == last.op = op /\ last.res.kind # "raise"

\* C1 (as claimed): a metric query called before smi_initialize has ever been
\* called fails with ROCMLError_Uninitialized: no other error, no value, no
\* sentinel.
C1_UninitializedBeforeInitialize ==
    (~everInit /\ last.op \in HandleQueryOps \cup {"smi_get_device_compute_partition"})
        => (last.res.kind = "raise" /\ last.res.exc = "ROCMLError_Uninitialized")

\* C2 (as claimed): after every smi_initialize call that returns without raising,
\* the flag _handle_initialized is true, whatever the native layer enumerates.
C2_FlagSetAfterInitialize ==
    Returned("smi_initialize") => _handle_initialized

\* C3: after every smi_shutdown call that returns, the handle table is empty and
\* the flag is false.
C3_ShutdownClearsTable ==
    Returned("smi_shutdown") => (_processor_handles = <<>> /\ ~_handle_initialized)

\* C3 witness: a shutdown has returned in a session whose initialize had
\* populated a non-empty table.
C3_Witness ==
    Returned("smi_shutdown") /\ cyc = 2 /\ len1 > 0

\* C4: _get_processor_handle(index) raises ValueError exactly when index < 0 or
\* index >= the table length, and otherwise returns the handle stored at index.
C4_HandleRangeCheck ==
    last.op = "_get_processor_handle" =>
        IF last.dev < 0 \/ last.dev >= Len(_processor_handles)
        THEN last.res.kind = "raise" /\ last.res.exc = "ValueError"
        ELSE last.res.kind = "handle" /\ last.res.h = _processor_handles[last.dev + 1]

\* C4 witness: a negative index was refused although the table holds handles.
C4_Witness ==
    /\ last.op = "_get_processor_handle"
    /\ last.dev < 0
    /\ Len(_processor_handles) > 0
    /\ last.res.kind = "raise"

\* The last call was a handle-based query with an invalid argument: a device
\* index outside the table, a memory type that is not listed, an unknown UUID
\* format.
InvalidArgCall ==
    /\ last.op \in HandleQueryOps
    /\ \/ last.dev < 0 \/ last.dev >= Len(_processor_handles)
       \/ last.dev2 # NoDev /\ (last.dev2 < 0 \/ last.dev2 >= Len(_processor_handles))
       \/ last.op = "smi_get_device_memory_total" /\ last.arg \notin SeqRange(memory_type_l)
       \/ last.op = "smi_get_device_uuid" /\ last.arg \notin {"roc", "raw", "nv"}

Failed(status) == status # NotCalled /\ ~amdsmi_ret_ok(status)

\* C6 (as claimed): after a successful smi_initialize, a handle-based query whose
\* native call returns a non-success status returns its sentinel and leaves the
\* session state unchanged.
C6_NativeFailureGivesSentinel ==
    [][(lifeLast = "init" /\ last'.op \in HandleQueryOps /\ Failed(last'.native))
          => (last'.res = Sentinel(last'.op) /\ UNCHANGED session)]_vars

\* The native call that decides the outcome failed: for smi_get_device_uuid that
\* is the BDF call of the fallback, made after a failed UUID call.
DecidingCallFailed(c) ==
    IF c.op = "smi_get_device_uuid"
    THEN Failed(c.native) /\ Failed(c.native2)
    ELSE Failed(c.native)

\* C6 (amended): as claimed, except that smi_get_device_uuid gives its sentinel
\* only when the BDF call of its fallback fails too; after a failed UUID call
\* alone it returns the BDF-derived string.
C6_DecidingFailureGivesSentinel ==
    [][(lifeLast = "init" /\ last'.op \in HandleQueryOps)
          => /\ DecidingCallFailed(last') =>
                    (last'.res = Sentinel(last'.op) /\ UNCHANGED session)
             /\ (/\ last'.op = "smi_get_device_uuid"
                 /\ Failed(last'.native) /\ amdsmi_ret_ok(last'.native2)
                 /\ last'.arg \in {"roc", "raw", "nv"})
                    => (last'.res # Sentinel(last'.op) /\ UNCHANGED session)]_vars

\* C6 witness: in an initialized session the native call of a two-device query
\* failed and the query returned -1.
C6_Witness ==
    /\ lifeLast = "init"
    /\ last.op = "smi_is_device_p2p_accessible"
    /\ Failed(last.native)
    /\ last.res = RetNum(0 - 1)

\* C7: two consecutive smi_get_device_count calls return the same value.
C7_CountIdempotent ==
    repeat # <<>> => repeat[1] = repeat[2]

\* C7 witness: two consecutive counts, the first of which had to populate the
\* table after a shutdown, both reported devices.
C7_Witness ==
    repeat # <<>> /\ repeat[2] > 0 /\ lifeLast = "shutdown"

\* C8: in initialize; shutdown; initialize; shutdown the table has the same
\* length after the second initialize as after the first.
C8_ReinitSameLength ==
    cyc >= 3 => len1 = len2

\* C8 witness: the four calls have run on a machine with devices.
C8_Witness ==
    cyc = 4 /\ len1 > 0 /\ Returned("smi_shutdown")

\* C9 (as claimed): the reference count is >= 0 in every reachable state.
C9_RefcountNonNegative ==
    _rocm_lib_refcount >= 0

\* C9 (amended): the reference count is >= 0 as long as no more smi_shutdown
\* calls have returned than smi_initialize calls.
C9_RefcountNonNegativeWhenPaired ==
    nShutdown <= nInitOk => _rocm_lib_refcount >= 0

\* C9 witness: initialize and shutdown calls have both returned, paired.
C9_Witness ==
    nInitOk >= 1 /\ nShutdown >= 1 /\ nShutdown <= nInitOk /\ _rocm_lib_refcount = 0

\* C10: however the threads' calls of _load_rocm_library interleave, the native
\* library is loaded at most once, by one thread.
C10_LoadedAtMostOnce ==
    loads <= 1 /\ Cardinality(loaders) <= 1

\* C10 witness: a thread that found no library on the unlocked test and then
\* waited for the lock finds, under the lock, that another thread has loaded it.
C10_Witness ==
    /\ loads = 1
    /\ \E t \in Threads :
        /\ pc[t] = "load_release"
        /\ texc[t] = NoException
        /\ t \notin loaders

\* C11: once rocm_lib holds the loaded library no step clears or replaces it,
\* neither smi_shutdown nor a smi_initialize that fails.
C11_LibraryNeverUnloaded ==
    [][rocm_lib # None => rocm_lib' = rocm_lib]_vars

\* C11 witness: with the library loaded, a smi_shutdown has returned and a
\* later smi_initialize has failed.
C11_Witness ==
    /\ rocm_lib # None
    /\ nShutdown > 0
    /\ last.op = "smi_initialize"
    /\ last.res.kind = "raise"

\* C12: whenever no call is in progress, the reference count is the number of
\* smi_initialize calls that succeeded less the number of smi_shutdown calls
\* that returned, however the threads' calls interleaved.
C12_NoLostRefcountUpdate ==
    (\A t \in Threads : pc[t] = "idle")
        => _rocm_lib_refcount = nInitOk - nShutdown

\* C12 witness: one thread is between the read and the store of its update,
\* holding the lock, while another waits for the lock to make its own.
C12_Witness ==
    \E t, u \in Threads :
        /\ pc[t] = "init_count"
        /\ lib_load_lock = t
        /\ pc[u] = "shut_acquire"

\* The table a complete enumeration of the machine builds.
FullTable == SocketLoop(hw, TRUE, Len(hw.socks))

\* C13: reads never race with population and clearing: a resolve whose range
\* check passed returns the handle that stood at its index when it was checked,
\* and a count is the length of an empty or of a completely built table.
C13_ReadsNeverRace ==
    [][\A t \in Threads :
        /\ (pc[t] = "res_index" /\ pc'[t] = "idle")
               => last'.res = RetHandle(chk[t])
        /\ (pc[t] = "cnt_len" /\ pc'[t] = "idle")
               => last'.res.num \in {0, Len(FullTable)}]_vars

\* What _get_processor_handle(i) gives when called in the current state.
Resolved(i) ==
    LET r == HandleLookup(_init_processor_handles(rocm_lib, nativeUp, _processor_handles,
                                                  _handle_initialized).handles, i)
    IN  IF r.exc # NoException THEN Raise(r.exc) ELSE RetHandle(r.h)

\* C14: between a successful smi_initialize and the next smi_shutdown, a call
\* _get_processor_handle(i) returns what the state it is called in resolves i
\* to, and no call made in between changes what any index resolves to; so all
\* calls for one index give one outcome.
C14_IndexStability ==
    [][lifeLast = "init" =>
        \A i \in Devs :
            /\ (last'.op = "_get_processor_handle" /\ last'.dev = i)
                   => last'.res = Resolved(i)
            /\ lifeLast' = "init" => Resolved(i)' = Resolved(i)]_vars

\* C14 witness: inside a cycle, after a count query, an index has resolved to a
\* handle.
C14_Witness ==
    /\ lifeLast = "init"
    /\ _handle_initialized
    /\ last.op = "_get_processor_handle"
    /\ last.res.kind = "handle"
    /\ last.dev = MaxDev

\* Two successive smi_get_device_uuid calls for one valid device, the first in
\* format f1 and the second in format f2, which the native layer answered alike
\* with a successful UUID call or a successful BDF call of the fallback.
UuidPair(f1, f2) ==
    /\ last.op = "smi_get_device_uuid" /\ last'.op = "smi_get_device_uuid"
    /\ last.dev = last'.dev
    /\ last.native # NotCalled /\ last'.native = last.native
    /\ last'.native2 = last.native2
    /\ last'.answer = last.answer
    /\ amdsmi_ret_ok(last.native) \/ amdsmi_ret_ok(last.native2)
    /\ last.arg = f1 /\ last'.arg = f2

\* The UUID call of the last smi_get_device_uuid failed and its fallback ran.
UsedFallback(c) ==
    /\ c.op = "smi_get_device_uuid"
    /\ Failed(c.native)
    /\ amdsmi_ret_ok(c.native2)

\* C15: the 'roc' result is 'GPU-' followed by the 'raw' result, in the native
\* path and in the BDF fallback.
C15_RocIsPrefixedRaw ==
    [][UuidPair("roc", "raw") => last.res.str = GpuPrefix \o last'.res.str]_vars

\* C15 witness: a 'raw' call for a device whose native UUID string carries the
\* prefix returned the string without it.
C15_Witness ==
    /\ last.op = "smi_get_device_uuid"
    /\ last.arg = "raw"
    /\ amdsmi_ret_ok(last.native)
    /\ StartsWithGpu(last.answer.uuid_str)
    /\ last.res.str # <<>>
    /\ ~StartsWithGpu(last.res.str)

\* C16: the 'nv' result is the same string as the 'roc' result, in the native
\* path and in the BDF fallback.
C16_NvEqualsRoc ==
    [][UuidPair("roc", "nv") => last'.res.str = last.res.str]_vars

\* A string without its hyphens.
StripHyphens(str) == SelectSeq(str, LAMBDA c : c # "-")

\* C16 (amended): in the native path 'nv' is the same string as 'roc'; in the
\* BDF fallback 'nv' is the 'roc' string with its hex digits grouped 8-4-4-4-12
\* by four hyphens, so it differs from 'roc' and gives it back once the
\* hyphens after the prefix are removed.
C16_NvEqualsRocUpToGrouping ==
    [][UuidPair("roc", "nv") =>
        IF UsedFallback(last')
        THEN /\ last'.res.str # last.res.str
             /\ Len(last'.res.str) = Len(last.res.str) + 4
             /\ SubSeq(last'.res.str, 1, 4) = GpuPrefix
             /\ GpuPrefix \o StripHyphens(SubSeq(last'.res.str, 5, Len(last'.res.str)))
                    = last.res.str
        ELSE last'.res.str = last.res.str]_vars

\* C16 witness: the fallback answered an 'nv' call with a grouped string.
C16_Witness ==
    /\ UsedFallback(last)
    /\ last.arg = "nv"
    /\ last.native # NotCalled
    /\ last.res.str # <<>>

\* C17: a smi_initialize that raises leaves the reference count, the table and
\* the flag as they were; the reference count rises only in a smi_initialize
\* whose native init succeeded and whose population has run.
C17_FailedInitializeChangesNothing ==
    [][/\ (last'.op = "smi_initialize" /\ last'.res.kind = "raise")
            => UNCHANGED <<_rocm_lib_refcount, _processor_handles,
                           _handle_initialized>>
       /\ _rocm_lib_refcount' > _rocm_lib_refcount
            => /\ last'.op = "smi_initialize"
               /\ last'.res = RetNone
               /\ last'.native = AMDSMI_STATUS_SUCCESS
               /\ nativeUp'
               /\ LET p == _init_processor_handles(rocm_lib', TRUE, _processor_handles,
                                                   _handle_initialized)
                  IN  /\ _processor_handles' = p.handles
                      /\ _handle_initialized' = p.flag]_vars

\* C17 witness: a smi_initialize has failed in a session that holds a
\* reference and a populated table.
C17_Witness ==
    /\ last.op = "smi_initialize"
    /\ last.res.kind = "raise"
    /\ _rocm_lib_refcount > 0
    /\ _handle_initialized
    /\ _processor_handles # <<>>

\* C18: when the driver is not reported live smi_initialize fails with
\* DriverNotLoaded without calling amdsmi_init, and amdsmi_init is called only
\* after the driver was reported live.
C18_DriverNotLoadedBeforeNativeInit ==
    last.op = "smi_initialize"
        => /\ last.arg = "not live"
                => (last.res = Raise("ROCMLError_DriverNotLoaded")
                    /\ last.native = NotCalled)
           /\ last.native # NotCalled => last.arg = "live"

\* C19: amdsmi_ret_ok and rsmi_ret_ok return true for the success code and
\* false for every other code, never raise, with or without a library and
\* whatever the message lookup does, and log exactly when the code is not
\* success.
C19_TranslatorTotal ==
    last.op \in {"amdsmi_ret_ok", "rsmi_ret_ok"}
        => /\ last.res.kind = "bool"
           /\ last.res.num = 1 <=> last.native = AMDSMI_STATUS_SUCCESS
           /\ last.res.str # <<>> <=> last.native # AMDSMI_STATUS_SUCCESS

\* C19 witness: without a library rsmi_ret_ok was given a code outside the
\* table of messages and returned false.
C19_Witness ==
    /\ last.op = "rsmi_ret_ok"
    /\ rocm_lib = None
    /\ last.native \notin Status \cup {AMDSMI_STATUS_NOT_INIT}
    /\ last.res = RetLogged(FALSE, <<"table message">>)

\* Socket i of the machine answers both of its amdsmi_get_processor_handles
\* calls with success.
GoodSocket(i) ==
    /\ amdsmi_ret_ok(hw.socks[i].cntRet)
    /\ amdsmi_ret_ok(hw.socks[i].getRet)

PopulatingOps == {"smi_initialize", "smi_get_device_count", "_get_processor_handle"}

\* C21: population is idempotent. A call of smi_initialize,
\* smi_get_device_count or _get_processor_handle that starts with the populated
\* flag set makes no native enumeration call and leaves the handle table and
\* the flag as they were.
C21_PopulationIdempotent ==
    [][(_handle_initialized /\ last'.op \in PopulatingOps)
        => /\ last'.enum = 0
           /\ UNCHANGED <<_processor_handles, _handle_initialized>>]_vars

\* A smi_initialize that succeeded without one enumeration call: it found the
\* table already populated.
C21_Witness ==
    /\ last.op = "smi_initialize"
    /\ last.res = RetNone
    /\ last.enum = 0
    /\ _handle_initialized
    /\ Len(_processor_handles) > 0

\* C22: smi_shutdown does not escalate a native shutdown failure. When
\* amdsmi_shut_down returns a non-success status on a loaded library,
\* smi_shutdown returns normally, the handle table is empty and the flag false
\* afterwards, and the reference count is lower by exactly one.
C22_ShutdownSwallowsNativeFailure ==
    [][(last'.op = "smi_shutdown" /\ Failed(last'.native))
        => /\ last'.res = RetNone
           /\ _processor_handles' = <<>>
           /\ ~_handle_initialized'
           /\ _rocm_lib_refcount' = _rocm_lib_refcount - 1]_vars

\* A smi_shutdown whose native call failed while the native session was up.
C22_Witness ==
    /\ last.op = "smi_shutdown"
    /\ Failed(last.native)
    /\ last.res = RetNone
    /\ nativeUp
    /\ ~_handle_initialized

\* A call of op whose native metric call returned AMDSMI_STATUS_SUCCESS.
NativeSucceeded(op) == last.op = op /\ last.native = AMDSMI_STATUS_SUCCESS

\* C23: on a successful power-info call smi_get_device_average_power returns,
\* as a float, the first strictly positive field in the order
\* current_socket_power, average_socket_power, socket_power, and the sentinel
\* -1 when none of the three is positive; the result is -1 or greater than 0.
C23_AveragePowerPreference ==
    NativeSucceeded("smi_get_device_average_power") =>
        LET cur == last.reply[1]
            avg == last.reply[2]
            socket_power == last.reply[3]
        IN  /\ Positive(cur) => last.res = RetFloat(FloatOfInt(cur))
            /\ ~Positive(cur) /\ Positive(avg)
                => last.res = RetFloat(FloatOfInt(avg))
            /\ ~Positive(cur) /\ ~Positive(avg) /\ Positive(socket_power)
                => last.res = RetFloat(FloatOfInt(socket_power))
            /\ ~Positive(cur) /\ ~Positive(avg) /\ ~Positive(socket_power)
                => last.res = RetNum(0 - 1)
            /\ \/ last.res = RetNum(0 - 1)
               \/ last.res.kind = "float" /\ Positive(last.res.seq)

\* The current reading is zero and the average is not: the average is returned.
C23_Witness ==
    /\ NativeSucceeded("smi_get_device_average_power")
    /\ ~Positive(last.reply[1])
    /\ Positive(last.reply[2])
    /\ Positive(last.reply[3])
    /\ last.res = RetFloat(FloatOfInt(last.reply[2]))

\* C24: on a successful PCIe-info call smi_get_device_pcie_throughput returns
\* exactly bandwidth * 131072 (= 2^17) as an integer for every 32-bit
\* bandwidth, 0 for bandwidth 0, never a negative number; when the native
\* call fails it returns -1.
C24_PcieThroughputExact ==
    /\ NativeSucceeded("smi_get_device_pcie_throughput") =>
        LET bandwidth == last.reply[1] IN
        /\ Len(bandwidth) = BandwidthBits
        /\ Positive(bandwidth) => last.res = RetWide(ShiftLeft(bandwidth, 17))
        /\ ~Positive(bandwidth) => last.res = RetNum(0)
    /\ (last.op = "smi_get_device_pcie_throughput" /\ Failed(last.native))
        => last.res = RetNum(0 - 1)

\* The largest 32-bit bandwidth, 2^32 - 1 Mb/s, came back as (2^32 - 1) * 2^17.
C24_Witness ==
    /\ NativeSucceeded("smi_get_device_pcie_throughput")
    /\ last.reply[1] = Ones(BandwidthBits)
    /\ last.res = RetWide(Zeros(17) \o Ones(BandwidthBits))

\* C25 (as claimed): while the reference count is positive the handle table
\* populated by smi_initialize is still present and the native session has not
\* been shut down: a smi_shutdown that finds the table populated and returns
\* with the count still positive leaves the table, the flag and the native
\* session as they were.
C25_TableKeptWhileReferenced ==
    [][(/\ _handle_initialized
        /\ last'.op = "smi_shutdown"
        /\ last'.res = RetNone
        /\ _rocm_lib_refcount' > 0)
        => UNCHANGED <<_processor_handles, _handle_initialized, nativeUp>>]_vars

\* C26 (as claimed): the handle table is populated only while a session is
\* active. A smi_get_device_count or _get_processor_handle call made after
\* smi_shutdown has returned and before the next smi_initialize makes no
\* native enumeration call and leaves the table empty and the flag false.
C26_NoPopulationAfterShutdown ==
    (lifeLast = "shutdown"
     /\ last.op \in {"smi_get_device_count", "_get_processor_handle"})
        => /\ last.enum = 0
           /\ _processor_handles = <<>>
           /\ ~_handle_initialized

\* Thread t is inside _init_processor_handles.
Populating(t) ==
    pc[t] \in {"pop_check", "pop_reset", "pop_enum", "pop_socket", "pop_append",
               "pop_flag", "pop_except"}

\* C27 (as claimed): when threads populate the handle table concurrently the
\* resulting table holds every discovered processor handle exactly once. Once
\* the flag is set and no thread is inside _init_processor_handles any more
\* (and no smi_shutdown has begun), the table is the one a single enumeration
\* builds.
C27_ConcurrentPopulationExactlyOnce ==
    (/\ _handle_initialized
     /\ \A t \in Threads : ~Populating(t)
     /\ nShutdown + ShutdownCallsOpen = 0)
        => _processor_handles = FullTable

\* C28: between the calls of a single thread a false populated flag implies an
\* empty handle table: an enumeration that returns early or raises inside
\* leaves the table empty and the flag false, never a partial table.
C28_UnsetFlagMeansEmptyTable ==
    ~_handle_initialized => _processor_handles = <<>>

\* A smi_get_device_count that made enumeration calls on a loaded library and
\* returned with the flag still false, on a machine with a socket.
C28_Witness ==
    /\ last.op = "smi_get_device_count"
    /\ last.enum > 0
    /\ Len(hw.socks) > 0
    /\ ~_handle_initialized
    /\ _processor_handles = <<>>

\* C29: lib_load_lock is released at the end of every operation that acquires
\* it, on success and on every error path. The lock is only ever held by a
\* thread that is between an acquire and the matching release of
\* _load_rocm_library, _rocml_get_function_ptr, smi_initialize or
\* smi_shutdown, and a held lock is always released, so a later acquirer
\* proceeds.
C29_LockAlwaysReleased ==
    /\ [](lib_load_lock # 0 => pc[lib_load_lock] \in LockedLabels)
    /\ (lib_load_lock # 0) ~> (lib_load_lock = 0)

\* A lookup made before the library was loaded has raised inside the try and
\* is about to pass the release.
C29_Witness ==
    \E t \in Threads :
        /\ pc[t] = "ptr_release"
        /\ texc[t] = "ROCMLError_Uninitialized"
        /\ lib_load_lock = t

\* C30 (as claimed): the two-phase counted fetch never reads past the buffer
\* sized from the first call. Whatever count the second native call reports,
\* smi_get_device_compute_process on a loaded library returns a list (empty on
\* failure) and does not raise.
C30_CountedFetchStaysInBuffer ==
    (last.op = "smi_get_device_compute_process" /\ last.native # NotCalled)
        => last.res.kind = "list"

====
